---- MODULE Spec2Model ----
(***************************************************************************)
(* A state-machine model of CART::Cache (include/Cache.h) and of the       *)
(* loader used by the benchmark (CacheImpl).                               *)
(*                                                                         *)
(* Threads execute the public operations of the cache step by step; one    *)
(* step is the code between two points where another thread can observe    *)
(* or change what the step reads: the per-key accessors of m_T1T2map, the  *)
(* queuing mutex m_mutex, the rows of m_usage and the reference bits.      *)
(*                                                                         *)
(* A VALUE* is modelled as <<key, i>>: the i-th address of the pool of     *)
(* addresses used for values of that key, i = 0 being nullptr.  Addresses  *)
(* are only ever compared for equality and hashed together with the key,   *)
(* so giving every key its own pool loses no behaviour.                    *)
(***************************************************************************)
EXTENDS Integers, Sequences, FiniteSets, TLC

\* ------------------------------------------------------------ bounds
NumKeys == 3
MaxValsPerKey == 2
NumThreads == 2
MaxHeld == 1
MaxElements == 2
MaxQueued == 2
MaxClears == 1
MaxBytes == 2
MaxScan == 6

\* ------------------------------------------------- program constants
\* CacheImpl::CacheGetValueSize returns sizeof(key_t) for every value.
ValueSize == 4

\* Keys are the keys the clients ask for, Ids the rows m_usage may hold for
\* them and Ptrs the addresses of their values; the client that scans asks
\* for the keys of ScanKeys.
Keys == 1..NumKeys
Threads == 1..NumThreads
Ids == Keys \X (0..MaxValsPerKey)
Ptrs == Keys \X (1..MaxValsPerKey)
ScanKeys == 1..MaxScan
ScanIds == ScanKeys \X (0..MaxValsPerKey)
ScanPtrs == ScanKeys \X (1..MaxValsPerKey)

VARIABLES
    c,      \* the members of the Cache object (m_T1Queue, m_p, ...)
    heap,   \* for every address of a pool: "free", "live" or "dead"
    held,   \* held[t][id]: the non-empty Handle objects thread t owns
    th,     \* th[t]: the call thread t is executing and its locals
    ev,     \* the loader callbacks and assertions of the last step
    ret,    \* the call that returned in the last step, if any
    cfg     \* what the environment does: the loader may fail, the client
            \* may keep handles across calls, calls record the cache, the
            \* calls of Clear still to come (-1: any number)

vars == <<c, heap, held, th, ev, ret, cfg>>

\* ----------------------------------------------------- integer types
\* Values of unsigned type are kept in their two's complement signed
\* reading, so that a wrapped difference a - b (a < b) is the negative
\* number a - b; an unsigned comparison then orders negatives above all
\* non-negatives.
ULess(a, b) == IF (a < 0) = (b < 0) THEN a < b ELSE b < 0

UGeq(a, b) == ~ULess(a, b)

\* Max<T, F>(x, y) and Min<T, F>(x, y) with T a signed type.
MaxS(x, y) == IF x < y THEN y ELSE x

MinS(x, y) == IF x < y THEN x ELSE y

\* Max<T, F>(x, y) and Min<T, F>(x, y) with T an unsigned type.
MaxU(x, y) == IF ULess(x, y) THEN y ELSE x

MinU(x, y) == IF ULess(x, y) THEN x ELSE y

\* C++ integer division truncates toward zero.
DivTrunc(a, b) ==
    LET q == (IF a < 0 THEN -a ELSE a) \div (IF b < 0 THEN -b ELSE b)
    IN  IF (a < 0) = (b < 0) THEN q ELSE -q

\* --------------------------------------------------------- sequences
RemoveAt(s, i) == SubSeq(s, 1, i - 1) \o SubSeq(s, i + 1, Len(s))

PopBack(s) == SubSeq(s, 1, Len(s) - 1)

\* A search that keeps the last hit, not the first.
LastPos(s, hits) ==
    IF hits = {} THEN Len(s) + 1
    ELSE CHOOSE i \in hits : \A j \in hits : j <= i

\* The first of the positions hits of s, Len(s) + 1 when there is none
\* (an iterator walk that reaches end()).
FirstPos(s, hits) ==
    IF hits = {} THEN Len(s) + 1
    ELSE CHOOSE i \in hits : \A j \in hits : i <= j

\* ---------------------------------------------------------- elements
\* A constructor that leaves the page of the new element null.
CLOCKElementWithoutPage(pageKey, page) ==
    [pageKey |-> pageKey, page |-> 0, referenceBit |-> FALSE,
     longBit |-> FALSE, firstList |-> TRUE, deleted |-> FALSE]

CLOCKElement(pageKey, page) ==
    [pageKey |-> pageKey, page |-> page, referenceBit |-> FALSE,
     longBit |-> FALSE, firstList |-> TRUE, deleted |-> FALSE]

NoElement == CLOCKElement(0, 0)

\* An element kept in B1 or B2.  Its page, referenceBit and longBit are
\* not read again before the history hit overwrites them.
Ghost(e) == [CLOCKElement(e.pageKey, 0) EXCEPT !.firstList = e.firstList]

Resident(cc) == cc.m_T1Queue \o cc.m_T2Queue

History(cc) == cc.m_B1List \o cc.m_B2List

HasKey(s, k) == \E i \in 1..Len(s) : s[i].pageKey = k

PosOfKey(s, k) == FirstPos(s, {i \in 1..Len(s) : s[i].pageKey = k})

\* The element an entry of m_T1T2map points to: an element of T1 or T2,
\* or the victim an insertion has taken out of its queue and not yet out
\* of the map (th[t].element), or one that Clear has deleted and cleared
\* from its queue while the map still holds the pointer (cc.deleted).
ElementOf(cc, k) ==
    LET r == Resident(cc)
    IN  IF HasKey(r, k) THEN r[PosOfKey(r, k)]
        ELSE IF \E t \in DOMAIN th : th[t].element.pageKey = k
             THEN th[CHOOSE t \in DOMAIN th : th[t].element.pageKey = k].element
        ELSE IF \E e \in cc.deleted : e.pageKey = k
             THEN CHOOSE e \in cc.deleted : e.pageKey = k
             ELSE NoElement

SetReferenceBit(s, k) ==
    [i \in 1..Len(s) |->
        IF s[i].pageKey = k THEN [s[i] EXCEPT !.referenceBit = TRUE] ELSE s[i]]

\* ------------------------------------------------------------ events
AcquireEv(k) == [type |-> "acquire", key |-> k, page |-> 0, live |-> TRUE]

ReleaseEv(k, v, live) ==
    [type |-> "release", key |-> k, page |-> v, live |-> live]

SizeEv(k, v, live) == [type |-> "size", key |-> k, page |-> v, live |-> live]

\* A failed assert(); what names it.
AssertEv(what, k, v) == [type |-> what, key |-> k, page |-> v, live |-> TRUE]

\* ------------------------------------------------------- usage rows
\* m_usage maps HashMurmur3(key, value) to a count; a row that is absent
\* is the count 0 (rows are created at 1 and erased at 0).
IncUsage(usage, k, v) == [usage EXCEPT ![<<k, v>>] = @ + 1]

GetUsage(usage, k, v) == usage[<<k, v>>]

\* A usage count whose decrement never waits for the handles.
DecUsageNoWait(usage, k, v, waitForLast) ==
    LET n == usage[<<k, v>>]
        same == [usage |-> usage, blocked |-> FALSE, missing |-> FALSE,
                 released |-> FALSE, isZero |-> FALSE]
    IN  IF n = 0 THEN [same EXCEPT !.missing = TRUE]
        ELSE IF n = 1
             THEN [same EXCEPT !.usage = [usage EXCEPT ![<<k, v>>] = 0],
                               !.released = TRUE, !.isZero = TRUE]
             ELSE [same EXCEPT !.usage = [usage EXCEPT ![<<k, v>>] = n - 1]]

\* One pass of the loop of DecUsage.  blocked: the row is above 1 and
\* waitForLast is set, the loop goes round again.  missing: no row, the
\* assert(false) branch.  released: CacheReleaseValue(key, value) was
\* called and the row erased; isZero is the returned bool.
DecUsage(usage, k, v, waitForLast) ==
    LET n == usage[<<k, v>>]
        same == [usage |-> usage, blocked |-> FALSE, missing |-> FALSE,
                 released |-> FALSE, isZero |-> FALSE]
    IN  IF n = 0 THEN [same EXCEPT !.missing = TRUE]
        ELSE IF waitForLast /\ n > 1 THEN [same EXCEPT !.blocked = TRUE]
        ELSE IF n = 1
             THEN [same EXCEPT !.usage = [usage EXCEPT ![<<k, v>>] = 0],
                               !.released = TRUE, !.isZero = TRUE]
             ELSE [same EXCEPT !.usage = [usage EXCEPT ![<<k, v>>] = n - 1]]

\* --------------------------------------------------------- the loader
\* An address is live from the new in CacheAcquireValue (or the caller's
\* new before InsertIntoCache) to the delete in CacheReleaseValue.
IsLive(hp, k, v) == v = 0 \/ hp[<<k, v>>] = "live"

\* The address the next new of a value for key k returns, 0 when the
\* pool of k is used up.
NewValue(hp, k) ==
    LET free == {i \in 1..MaxValsPerKey : hp[<<k, i>>] = "free"}
    IN  IF free = {} THEN 0 ELSE CHOOSE i \in free : \A j \in free : i <= j

\* CacheReleaseValue(key, value): delete value.
CacheReleaseValue(hp, k, v) ==
    IF v = 0 THEN hp ELSE [hp EXCEPT ![<<k, v>>] = "dead"]

\* What DecUsage result r did to the loader, as events and on the heap.
DecEvents(hp, k, v, r) ==
    IF r.missing THEN <<AssertEv("assert:row", k, v)>>
    ELSE IF r.released THEN <<ReleaseEv(k, v, IsLive(hp, k, v))>>
    ELSE <<>>

DecHeap(hp, k, v, r) == IF r.released THEN CacheReleaseValue(hp, k, v) ELSE hp

\* An address some pointer of the program still holds.
Referenced(id, cc, hd, tt) ==
    \/ \E i \in 1..Len(Resident(cc)) :
          <<Resident(cc)[i].pageKey, Resident(cc)[i].page>> = id
    \/ \E e \in cc.deleted : <<e.pageKey, e.page>> = id
    \/ cc.m_usage[id] > 0
    \/ \E t \in Threads :
          \/ hd[t][id] > 0
          \/ <<tt[t].key, tt[t].value>> = id
          \/ <<tt[t].element.pageKey, tt[t].element.page>> = id

\* A deleted address no pointer holds any more goes back to its pool.
Recycle(hp, cc, hd, tt) ==
    [id \in DOMAIN hp |->
        IF hp[id] = "dead" /\ ~Referenced(id, cc, hd, tt) THEN "free"
        ELSE hp[id]]

\* ------------------------------------------------------------ threads
IdleThread ==
    [pc |-> "idle", op |-> "none", key |-> 0, value |-> 0,
     maxNumElements |-> 0, full |-> FALSE, element |-> NoElement,
     it |-> 0, resident |-> FALSE, pages |-> {}, before |-> 0,
     log |-> <<>>]

NoRet == [thread |-> 0, op |-> "none", key |-> 0, resident |-> FALSE,
          handle |-> 0, full |-> FALSE, maxNumElements |-> 0, pages |-> {},
          before |-> 0, log |-> <<>>]

HeldCount(t) ==
    LET RECURSIVE Sum(_)
        Sum(S) == IF S = {} THEN 0
                  ELSE LET x == CHOOSE y \in S : TRUE
                       IN  held[t][x] + Sum(S \ {x})
    IN  Sum(DOMAIN held[t])

\* Handle(cache, key, value): a non-empty handle takes a usage.
AddHandle(hd, t, k, v) ==
    IF v = 0 THEN hd ELSE [hd EXCEPT ![t][<<k, v>>] = @ + 1]

HandleUsage(usage, k, v) == IF v = 0 THEN usage ELSE IncUsage(usage, k, v)

\* A step of thread t that does not return from its call.
Moves(t, cc, hp, hd, thr, evs) ==
    LET tt == [th EXCEPT ![t] = [thr EXCEPT !.log = @ \o evs]]
    IN  /\ c' = cc
        /\ held' = hd
        /\ th' = tt
        /\ heap' = Recycle(hp, cc, hd, tt)
        /\ ev' = evs
        /\ ret' = NoRet

Step(t, cc, hp, hd, thr, evs) ==
    /\ Moves(t, cc, hp, hd, thr, evs)
    /\ UNCHANGED cfg

\* The step of thread t that returns from its call, with a handle on
\* <<thr.key, handle>> (handle = 0: an empty handle, or no handle); thr
\* are its locals when it returns.
Return(t, thr, cc, hp, hd, evs, handle) ==
    LET tt == [th EXCEPT ![t] = IdleThread]
    IN  /\ c' = cc
        /\ held' = hd
        /\ th' = tt
        /\ heap' = Recycle(hp, cc, hd, tt)
        /\ ev' = evs
        /\ ret' = [thread |-> t, op |-> thr.op, key |-> thr.key,
                   resident |-> thr.resident, handle |-> handle,
                   full |-> thr.full, maxNumElements |-> thr.maxNumElements,
                   pages |-> thr.pages, before |-> thr.before,
                   log |-> thr.log \o evs]
        /\ UNCHANGED cfg

\* ------------------------------------------------------- construction
\* Cache(): m_maxNumElements, m_maxUsedMemory, then Clear().
NewCache(maxNumElements, maxUsedMemory) ==
    [m_p |-> 0, m_q |-> 0,
     m_T1T2map |-> [k \in Keys |-> "none"],
     accessor |-> [k \in Keys |-> 0],
     m_mutex |-> 0,
     m_T1Queue |-> <<>>, m_T2Queue |-> <<>>,
     m_numShort |-> 0, m_numLong |-> 0, m_usedMemory |-> 0,
     m_B1B2map |-> {},
     m_B1List |-> <<>>, m_B1ListSize |-> 0,
     m_B2List |-> <<>>, m_B2ListSize |-> 0,
     m_maxNumElements |-> maxNumElements,
     m_maxUsedMemory |-> maxUsedMemory,
     m_usage |-> [id \in Ids |-> 0],
     deleted |-> {}]

\* The environment of the benchmark: a loader that does not fail, a
\* client that drops the handle of a call before its next call.
Env == [fail |-> FALSE, hold |-> FALSE, snap |-> FALSE, clears |-> -1]

InitWith(maxNumElements, maxUsedMemory, env) ==
    /\ c = NewCache(maxNumElements, maxUsedMemory)
    /\ heap = [id \in Ptrs |-> "free"]
    /\ held = [t \in Threads |-> [id \in Ptrs |-> 0]]
    /\ th = [t \in Threads |-> IdleThread]
    /\ ev = <<>>
    /\ ret = NoRet
    /\ cfg = env

\* ------------------------------------------------------ FindOrCreate
\* The <<key, page>> of the elements of T1 and T2.
Pages(cc) ==
    {<<Resident(cc)[i].pageKey, Resident(cc)[i].page>> :
        i \in 1..Len(Resident(cc))}

\* The locals of a thread that has just entered op(k).  What the call
\* found is kept for the properties to compare with: resident, whether
\* the key was in T1 or T2; pages, the pages Clear found resident; before,
\* the whole cache (where cfg.snap asks for it).
Called(op, pc, k) ==
    [IdleThread EXCEPT !.pc = pc, !.op = op, !.key = k,
                       !.resident = (k # 0 /\ c.m_T1T2map[k] = "elem"),
                       !.pages = IF op = "Clear" THEN Pages(c) ELSE {},
                       !.before = IF cfg.snap THEN c ELSE 0]

\* A call may start while the thread owns handles only if cfg.hold, and
\* then at most MaxHeld of them.
MayCall(t) ==
    /\ th[t].pc = "idle"
    /\ HeldCount(t) <= MaxHeld
    /\ cfg.hold \/ HeldCount(t) = 0

\* A map whose find() and insert() do not wait for the accessor.
AccessibleAtOnce(cc, k) == TRUE

\* find() and insert() of m_T1T2map wait while another accessor holds the
\* node of the key.
Accessible(cc, k) == cc.accessor[k] = 0

\* A hit that moves the element to the tail of its queue, as an LRU list
\* does.
HitHandleMovingToTail(t, thr, setBit) ==
    LET k == thr.key
        e == ElementOf(c, k)
        toTail(s) == IF HasKey(s, k)
                     THEN Append(RemoveAt(s, PosOfKey(s, k)), s[PosOfKey(s, k)])
                     ELSE s
        cc == [c EXCEPT
                 !.m_T1Queue = toTail(IF setBit THEN SetReferenceBit(@, k) ELSE @),
                 !.m_T2Queue = toTail(IF setBit THEN SetReferenceBit(@, k) ELSE @),
                 !.m_usage = HandleUsage(@, k, e.page)]
    IN  Return(t, thr, cc, heap, AddHandle(held, t, k, e.page), <<>>, e.page)

\* m_T1T2map.find(const_accessor, key) found the key: the call returns
\* the handle on the page of its element.
HitHandle(t, thr, setBit) ==
    LET k == thr.key
        e == ElementOf(c, k)
        cc == [c EXCEPT
                 !.m_T1Queue = IF setBit THEN SetReferenceBit(@, k) ELSE @,
                 !.m_T2Queue = IF setBit THEN SetReferenceBit(@, k) ELSE @,
                 !.m_usage = HandleUsage(@, k, e.page)]
    IN  Return(t, thr, cc, heap, AddHandle(held, t, k, e.page), <<>>, e.page)

\* FindOrCreate(key) up to the call of InternalInsert.  find() waits while
\* another thread holds the write accessor of the key.
FindOrCreate(t, k) ==
    /\ MayCall(t)
    /\ Accessible(c, k)
    /\ \/ /\ c.m_T1T2map[k] # "none"
          /\ HitHandle(t, Called("FindOrCreate", "foc", k), TRUE)
       \/ /\ c.m_T1T2map[k] = "none"
          /\ Step(t, c, heap, held, Called("FindOrCreate", "ins", k), <<>>)

\* ---------------------------------------------------------- IsInCache
\* A probe that sets the reference bit as FindOrCreate does.
IsInCacheSettingBit(t, k) ==
    /\ MayCall(t)
    /\ Accessible(c, k)
    /\ \/ /\ c.m_T1T2map[k] # "none"
          /\ HitHandle(t, Called("IsInCache", "iic", k), TRUE)
       \/ /\ c.m_T1T2map[k] = "none"
          /\ Return(t, Called("IsInCache", "iic", k), c, heap, held, <<>>, 0)

IsInCache(t, k) ==
    /\ MayCall(t)
    /\ Accessible(c, k)
    /\ \/ /\ c.m_T1T2map[k] # "none"
          /\ HitHandle(t, Called("IsInCache", "iic", k), FALSE)
       \/ /\ c.m_T1T2map[k] = "none"
          /\ Return(t, Called("IsInCache", "iic", k), c, heap, held, <<>>, 0)

\* ---------------------------------------------------- InsertIntoCache
\* The caller news the value it passes.
InsertIntoCache(t, k) ==
    LET v == NewValue(heap, k)
    IN  /\ MayCall(t)
        /\ v # 0
        /\ Step(t, c, [heap EXCEPT ![<<k, v>>] = "live"], held,
                [Called("InsertIntoCache", "ins", k) EXCEPT !.value = v],
                <<>>)

\* ----------------------------------------------------- InternalInsert
\* The values CacheAcquireValue(k) may return: a new value, or nullptr
\* when the loader fails and cfg.fail lets it.
Acquired(k) ==
    {v \in {NewValue(heap, k)} : v # 0} \cup (IF cfg.fail THEN {0} ELSE {})

\* An insertion that gives a key found in the map the value of the caller
\* and releases the value it had.
InsUpdating(t) ==
    LET k == th[t].key
        mine == th[t].value
    IN  /\ th[t].pc = "ins"
        /\ Accessible(c, k)
        /\ \/ /\ c.m_T1T2map[k] # "none"
              /\ LET e == ElementOf(c, k)
                     v == IF mine = 0 THEN e.page ELSE mine
                     swap(q) == [i \in 1..Len(q) |->
                                   IF q[i].pageKey = k
                                   THEN [q[i] EXCEPT !.page = v] ELSE q[i]]
                     cc == [c EXCEPT
                              !.m_T1Queue = swap(@),
                              !.m_T2Queue = swap(@),
                              !.m_usage = HandleUsage(
                                  IF mine = 0 THEN @
                                  ELSE [@ EXCEPT ![<<k, e.page>>] = 0,
                                                 ![<<k, mine>>] = 1], k, v)]
                     hp == IF mine = 0 THEN heap
                           ELSE CacheReleaseValue(heap, k, e.page)
                 IN  Return(t, th[t], cc, hp, AddHandle(held, t, k, v),
                            IF mine = 0 THEN <<>>
                            ELSE <<ReleaseEv(k, e.page, TRUE)>>, v)
           \/ /\ c.m_T1T2map[k] = "none"
              /\ \E v \in (IF mine = 0 THEN Acquired(k) ELSE {mine}) :
                    LET cc == [c EXCEPT !.m_T1T2map[k] = "null",
                                        !.accessor[k] = t,
                                        !.m_usage = IncUsage(@, k, v)]
                        hp == IF v = 0 THEN heap
                              ELSE [heap EXCEPT ![<<k, v>>] = "live"]
                    IN  Step(t, cc, hp, held,
                             [th[t] EXCEPT !.pc = "lock", !.value = v],
                             IF mine = 0 THEN <<AcquireEv(k)>> ELSE <<>>)

\* Lines 299-307.  insert(writeAccessor, key) waits for the accessor of the
\* key; it returns false when the key is in the map, and the call returns
\* a handle on the page found there (a value the caller passed stays the
\* caller's, who deletes it).  Otherwise the key enters the map with a null
\* element, the accessor is kept, and the value is acquired and counted.
Ins(t) ==
    LET k == th[t].key
        mine == th[t].value
    IN  /\ th[t].pc = "ins"
        /\ Accessible(c, k)
        /\ \/ /\ c.m_T1T2map[k] # "none"
              /\ LET e == ElementOf(c, k)
                     cc == [c EXCEPT !.m_usage = HandleUsage(@, k, e.page)]
                     hp == IF mine = 0 THEN heap
                           ELSE [heap EXCEPT ![<<k, mine>>] = "free"]
                 IN  Return(t, th[t], cc, hp, AddHandle(held, t, k, e.page),
                            <<>>, e.page)
           \/ /\ c.m_T1T2map[k] = "none"
              /\ \E v \in (IF mine = 0 THEN Acquired(k) ELSE {mine}) :
                    LET cc == [c EXCEPT !.m_T1T2map[k] = "null",
                                        !.accessor[k] = t,
                                        !.m_usage = IncUsage(@, k, v)]
                        hp == IF v = 0 THEN heap
                              ELSE [heap EXCEPT ![<<k, v>>] = "live"]
                    IN  Step(t, cc, hp, held,
                             [th[t] EXCEPT !.pc = "lock", !.value = v],
                             IF mine = 0 THEN <<AcquireEv(k)>> ELSE <<>>)

\* A capacity test with > in the place of >=.
IsFullAbove(cc) ==
    \/ /\ cc.m_maxNumElements # 0
       /\ ULess(cc.m_maxNumElements, Len(cc.m_T1Queue) + Len(cc.m_T2Queue))
    \/ /\ cc.m_maxUsedMemory # 0
       /\ ULess(cc.m_maxUsedMemory, cc.m_usedMemory)

IsFull(cc) ==
    \/ /\ cc.m_maxNumElements # 0
       /\ UGeq(Len(cc.m_T1Queue) + Len(cc.m_T2Queue), cc.m_maxNumElements)
    \/ /\ cc.m_maxUsedMemory # 0
       /\ UGeq(cc.m_usedMemory, cc.m_maxUsedMemory)

\* Lines 310-317: the scoped_lock on m_mutex, and the capacity of this
\* insertion.
Lock(t) ==
    /\ th[t].pc = "lock"
    /\ c.m_mutex = 0
    /\ Step(t, [c EXCEPT !.m_mutex = t], heap, held,
            IF IsFull(c)
            THEN [th[t] EXCEPT !.pc = "sweepT2", !.full = TRUE,
                     !.maxNumElements = Len(c.m_T1Queue) + Len(c.m_T2Queue)]
            ELSE [th[t] EXCEPT !.pc = "install",
                     !.maxNumElements = c.m_maxNumElements],
            <<>>)

\* Lines 330-331 and 543-547: the adaptation of q after a page entered T1.
AdaptQUp(cc, cap) ==
    IF UGeq(Len(cc.m_T2Queue) + cc.m_B2ListSize + Len(cc.m_T1Queue)
               - cc.m_numShort, cap)
    THEN [cc EXCEPT !.m_q = MinS(cc.m_q + 1, 2 * cap - Len(cc.m_T1Queue))]
    ELSE cc

\* Lines 320-332, one iteration: the head of T2 has its reference bit set
\* and moves to the tail of T1.
T2SweepTest(cc) == cc.m_T2Queue # <<>> /\ Head(cc.m_T2Queue).referenceBit

T2SweepBody(cc, cap) ==
    LET element == [Head(cc.m_T2Queue) EXCEPT !.referenceBit = FALSE,
                                              !.firstList = TRUE]
    IN  AdaptQUp([cc EXCEPT !.m_T1Queue = Append(@, element),
                            !.m_T2Queue = Tail(@)], cap)

SweepT2(t) ==
    /\ th[t].pc = "sweepT2"
    /\ IF T2SweepTest(c)
       THEN Step(t, T2SweepBody(c, th[t].maxNumElements), heap, held, th[t],
                 <<>>)
       ELSE Step(t, c, heap, held, [th[t] EXCEPT !.pc = "sweepT1"], <<>>)

\* Lines 334-363, one iteration: the head of T1 is Long or referenced.
T1SweepTest(cc) ==
    /\ Len(cc.m_T1Queue) # 0
    /\ Head(cc.m_T1Queue).longBit \/ Head(cc.m_T1Queue).referenceBit

\* A sweep of T1 that makes an element Long without counting it.
T1SweepBodyWithoutCount(cc, cap) ==
    LET element == Head(cc.m_T1Queue)
        promote == /\ UGeq(Len(cc.m_T1Queue),
                           MinU(cc.m_p + 1, cc.m_B1ListSize))
                   /\ ~element.longBit
    IN  IF element.referenceBit
        THEN [cc EXCEPT
                !.m_T1Queue = Append(Tail(@),
                    [element EXCEPT !.referenceBit = FALSE,
                                    !.longBit = promote \/ @])]
        ELSE [cc EXCEPT
                !.m_T1Queue = Tail(@),
                !.m_T2Queue = Append(@,
                    [element EXCEPT !.referenceBit = FALSE,
                                    !.firstList = FALSE]),
                !.m_q = MaxS(cc.m_q - 1, cap - (Len(cc.m_T1Queue) - 1))]

T1SweepBody(cc, cap) ==
    LET element == Head(cc.m_T1Queue)
        promote == /\ UGeq(Len(cc.m_T1Queue),
                           MinU(cc.m_p + 1, cc.m_B1ListSize))
                   /\ ~element.longBit
    IN  IF element.referenceBit
        THEN [cc EXCEPT
                !.m_T1Queue = Append(Tail(@),
                    [element EXCEPT !.referenceBit = FALSE,
                                    !.longBit = promote \/ @]),
                !.m_numShort = IF promote THEN @ - 1 ELSE @,
                !.m_numLong = IF promote THEN @ + 1 ELSE @]
        ELSE [cc EXCEPT
                !.m_T1Queue = Tail(@),
                !.m_T2Queue = Append(@,
                    [element EXCEPT !.referenceBit = FALSE,
                                    !.firstList = FALSE]),
                !.m_q = MaxS(cc.m_q - 1, cap - (Len(cc.m_T1Queue) - 1))]

SweepT1(t) ==
    /\ th[t].pc = "sweepT1"
    /\ IF T1SweepTest(c)
       THEN Step(t, T1SweepBody(c, th[t].maxNumElements), heap, held, th[t],
                 <<>>)
       ELSE Step(t, c, heap, held, [th[t] EXCEPT !.pc = "demote"], <<>>)

\* Lines 366-393: the iterators demoteT1 and demoteT2 as positions, the
\* length plus one being end().
\* A victim search that does not look at the usage of the pages.
UnusedOrNot(cc, e) == TRUE

Unused(cc, e) == ~(GetUsage(cc.m_usage, e.pageKey, e.page) > 1)

DemoteT1(cc) ==
    IF UGeq(Len(cc.m_T1Queue), MaxU(1, cc.m_p))
    THEN FirstPos(cc.m_T1Queue,
                  {i \in 1..Len(cc.m_T1Queue) : Unused(cc, cc.m_T1Queue[i])})
    ELSE Len(cc.m_T1Queue) + 1

DemoteT2(cc) ==
    IF DemoteT1(cc) = Len(cc.m_T1Queue) + 1
    THEN FirstPos(cc.m_T2Queue,
                  {i \in 1..Len(cc.m_T2Queue) : Unused(cc, cc.m_T2Queue[i])})
    ELSE Len(cc.m_T2Queue) + 1

\* Lines 366-405 and 421-427: the victim leaves its queue and its filter
\* count; th[t].it tells the queue it came from.
Demote(t) ==
    LET d1 == DemoteT1(c)
        d2 == DemoteT2(c)
    IN  /\ th[t].pc = "demote"
        /\ IF d1 # Len(c.m_T1Queue) + 1
           THEN LET element == c.m_T1Queue[d1]
                IN  Step(t, [c EXCEPT
                               !.m_T1Queue = RemoveAt(@, d1),
                               !.m_numLong = IF element.longBit THEN @ - 1 ELSE @,
                               !.m_numShort = IF element.longBit THEN @ ELSE @ - 1],
                         heap, held,
                         [th[t] EXCEPT !.pc = "demoteFind", !.it = 1,
                                       !.element = element],
                         <<>>)
           ELSE IF d2 # Len(c.m_T2Queue) + 1
           THEN LET element == c.m_T2Queue[d2]
                IN  Step(t, [c EXCEPT !.m_T2Queue = RemoveAt(@, d2),
                                      !.m_numLong = @ - 1],
                         heap, held,
                         [th[t] EXCEPT !.pc = "demoteFind", !.it = 2,
                                       !.element = element],
                         <<>>)
           ELSE Step(t, c, heap, held, [th[t] EXCEPT !.pc = "install"], <<>>)

\* Lines 407-415 and 429-437: find(eraseAccessor, pageKey) waits for the
\* accessor of the victim's key; the element becomes the front of B1 or B2.
DemoteFind(t) ==
    LET element == th[t].element
        k == element.pageKey
        check == c.m_T1T2map[k] # "none"
    IN  /\ th[t].pc = "demoteFind"
        /\ Accessible(c, k)
        /\ Step(t, [c EXCEPT
                      !.accessor[k] = IF check THEN t ELSE @,
                      !.m_B1List = IF th[t].it = 1
                                   THEN <<Ghost(element)>> \o @ ELSE @,
                      !.m_B1ListSize = IF th[t].it = 1 THEN @ + 1 ELSE @,
                      !.m_B2List = IF th[t].it = 2
                                   THEN <<Ghost(element)>> \o @ ELSE @,
                      !.m_B2ListSize = IF th[t].it = 2 THEN @ + 1 ELSE @,
                      !.m_B1B2map = @ \cup {k}],
                heap, held, [th[t] EXCEPT !.pc = "demoteDec"],
                IF check THEN <<>> ELSE <<AssertEv("assert:check", k, element.page)>>)

\* A demotion that does not take the size of the page off m_usedMemory.
DemoteDecKeepingMemory(t) ==
    LET element == th[t].element
        k == element.pageKey
        r == DecUsage(c.m_usage, k, element.page, TRUE)
        hp == DecHeap(heap, k, element.page, r)
        erase == c.accessor[k] = t
    IN  /\ th[t].pc = "demoteDec"
        /\ ~r.blocked
        /\ Step(t, [c EXCEPT
                      !.m_usage = r.usage,
                      !.m_T1T2map[k] = IF erase THEN "none" ELSE @,
                      !.accessor[k] = IF erase THEN 0 ELSE @],
                hp, held,
                [th[t] EXCEPT !.pc = "install", !.element = NoElement,
                              !.it = 0],
                DecEvents(heap, k, element.page, r)
                    \o <<SizeEv(k, element.page, IsLive(hp, k, element.page))>>)

\* Lines 417-419 and 439-441: DecUsage(pageKey, page, true) goes round
\* until the row is at most 1; then the size of the page is taken and the
\* key erased from the map.
DemoteDec(t) ==
    LET element == th[t].element
        k == element.pageKey
        r == DecUsage(c.m_usage, k, element.page, TRUE)
        hp == DecHeap(heap, k, element.page, r)
        erase == c.accessor[k] = t
    IN  /\ th[t].pc = "demoteDec"
        /\ ~r.blocked
        /\ Step(t, [c EXCEPT
                      !.m_usage = r.usage,
                      !.m_usedMemory = @ - ValueSize,
                      !.m_T1T2map[k] = IF erase THEN "none" ELSE @,
                      !.accessor[k] = IF erase THEN 0 ELSE @],
                hp, held,
                [th[t] EXCEPT !.pc = "install", !.element = NoElement,
                              !.it = 0],
                DecEvents(heap, k, element.page, r)
                    \o <<SizeEv(k, element.page, IsLive(hp, k, element.page))>>)

\* A history replacement that trims as soon as the history holds cap keys.
HistoryReplacementAtCapacity(cc, k, cap) ==
    IF k \notin cc.m_B1B2map /\ UGeq(Cardinality(cc.m_B1B2map), cap)
    THEN IF cc.m_B1ListSize > MaxS(0, cc.m_q) \/ cc.m_B2ListSize = 0
         THEN [cc EXCEPT
                 !.m_B1List = PopBack(@),
                 !.m_B1ListSize = @ - 1,
                 !.m_B1B2map = IF cc.m_B1List = <<>> THEN @
                     ELSE @ \ {cc.m_B1List[Len(cc.m_B1List)].pageKey}]
         ELSE IF cc.m_B2ListSize > 0
         THEN [cc EXCEPT
                 !.m_B2List = PopBack(@),
                 !.m_B2ListSize = @ - 1,
                 !.m_B1B2map = IF cc.m_B2List = <<>> THEN @
                     ELSE @ \ {cc.m_B2List[Len(cc.m_B2List)].pageKey}]
         ELSE cc
    ELSE cc

\* Lines 444-466: one ghost leaves the history when the key of this
\* insertion is not in it and it holds cap + 1 keys or more.
HistoryReplacement(cc, k, cap) ==
    IF k \notin cc.m_B1B2map /\ UGeq(Cardinality(cc.m_B1B2map), cap + 1)
    THEN IF cc.m_B1ListSize > MaxS(0, cc.m_q) \/ cc.m_B2ListSize = 0
         THEN [cc EXCEPT
                 !.m_B1List = PopBack(@),
                 !.m_B1ListSize = @ - 1,
                 !.m_B1B2map = IF cc.m_B1List = <<>> THEN @
                     ELSE @ \ {cc.m_B1List[Len(cc.m_B1List)].pageKey}]
         ELSE IF cc.m_B2ListSize > 0
         THEN [cc EXCEPT
                 !.m_B2List = PopBack(@),
                 !.m_B2ListSize = @ - 1,
                 !.m_B1B2map = IF cc.m_B2List = <<>> THEN @
                     ELSE @ \ {cc.m_B2List[Len(cc.m_B2List)].pageKey}]
         ELSE cc
    ELSE cc

\* An installation that leaves the key of a history hit in m_B1B2map.
InstallElementKeepingGhost(cc, k, v, cap, written) ==
    LET found == k \in cc.m_B1B2map
        h == History(cc)
        ghost == IF HasKey(h, k) THEN h[PosOfKey(h, k)] ELSE NoElement
        inB1 == ghost.firstList
        element == IF found
                   THEN [ghost EXCEPT !.page = v, !.referenceBit = FALSE,
                                      !.longBit = TRUE, !.firstList = TRUE]
                   ELSE CLOCKElement(k, v)
        adapted ==
            IF ~found THEN cc.m_p
            ELSE IF inB1
            THEN MinS(cc.m_p + MaxS(1, IF cc.m_B1ListSize # 0
                                       THEN DivTrunc(cc.m_numShort, cc.m_B1ListSize)
                                       ELSE 0), cap)
            ELSE MaxS(cc.m_p - MaxS(1, IF cc.m_B2ListSize # 0
                                       THEN DivTrunc(cc.m_numLong, cc.m_B2ListSize)
                                       ELSE 0), 0)
        moved == [cc EXCEPT
            !.m_p = adapted,
            !.m_numShort = IF found THEN @ ELSE @ + 1,
            !.m_numLong = IF found THEN @ + 1 ELSE @,
            !.m_T1T2map[k] = IF written THEN "elem" ELSE @,
            !.m_T1Queue = Append(@, element),
            !.m_B1List = IF found /\ inB1 THEN RemoveAt(@, PosOfKey(@, k)) ELSE @,
            !.m_B1ListSize = IF found /\ inB1 THEN @ - 1 ELSE @,
            !.m_B2List = IF found /\ ~inB1 THEN RemoveAt(@, PosOfKey(@, k)) ELSE @,
            !.m_B2ListSize = IF found /\ ~inB1 THEN @ - 1 ELSE @,
            !.m_B1B2map = @]
    IN  IF found /\ ~inB1 THEN AdaptQUp(moved, cap) ELSE moved

\* Lines 469-549: the key enters T1 at the tail, as a new Short element on
\* a history miss, as the Long element of its ghost on a history hit.
\* written: writeAccessor still names the map's node for the key.
InstallElement(cc, k, v, cap, written) ==
    LET found == k \in cc.m_B1B2map
        h == History(cc)
        ghost == IF HasKey(h, k) THEN h[PosOfKey(h, k)] ELSE NoElement
        inB1 == ghost.firstList
        element == IF found
                   THEN [ghost EXCEPT !.page = v, !.referenceBit = FALSE,
                                      !.longBit = TRUE, !.firstList = TRUE]
                   ELSE CLOCKElement(k, v)
        adapted ==
            IF ~found THEN cc.m_p
            ELSE IF inB1
            THEN MinS(cc.m_p + MaxS(1, IF cc.m_B1ListSize # 0
                                       THEN DivTrunc(cc.m_numShort, cc.m_B1ListSize)
                                       ELSE 0), cap)
            ELSE MaxS(cc.m_p - MaxS(1, IF cc.m_B2ListSize # 0
                                       THEN DivTrunc(cc.m_numLong, cc.m_B2ListSize)
                                       ELSE 0), 0)
        moved == [cc EXCEPT
            !.m_p = adapted,
            !.m_numShort = IF found THEN @ ELSE @ + 1,
            !.m_numLong = IF found THEN @ + 1 ELSE @,
            !.m_T1T2map[k] = IF written THEN "elem" ELSE @,
            !.m_T1Queue = Append(@, element),
            !.m_B1List = IF found /\ inB1 THEN RemoveAt(@, PosOfKey(@, k)) ELSE @,
            !.m_B1ListSize = IF found /\ inB1 THEN @ - 1 ELSE @,
            !.m_B2List = IF found /\ ~inB1 THEN RemoveAt(@, PosOfKey(@, k)) ELSE @,
            !.m_B2ListSize = IF found /\ ~inB1 THEN @ - 1 ELSE @,
            !.m_B1B2map = @ \ {k}]
    IN  IF found /\ ~inB1 THEN AdaptQUp(moved, cap) ELSE moved

\* Lines 444-553 and the destructors of lock and writeAccessor.
Install(t) ==
    LET k == th[t].key
        v == th[t].value
        cap == th[t].maxNumElements
        trimmed == IF th[t].full THEN HistoryReplacement(c, k, cap) ELSE c
        placed == InstallElement(trimmed, k, v, cap, c.accessor[k] = t)
        cc == [placed EXCEPT
                 !.m_usedMemory = @ + ValueSize,
                 !.m_usage = HandleUsage(@, k, v),
                 !.m_mutex = 0,
                 !.accessor[k] = IF @ = t THEN 0 ELSE @]
    IN  /\ th[t].pc = "install"
        /\ Return(t, th[t], cc, heap, AddHandle(held, t, k, v),
                  <<SizeEv(k, v, IsLive(heap, k, v))>>, v)

\* ------------------------------------------------------------ Handle
\* ~Handle() / Handle::Release() of a non-empty handle thread t owns.
Drop(t, id) ==
    LET r == DecUsage(c.m_usage, id[1], id[2], FALSE)
        hd == [held EXCEPT ![t][id] = @ - 1]
        cc == [c EXCEPT !.m_usage = r.usage]
    IN  /\ th[t].pc = "idle"
        /\ held[t][id] > 0
        /\ c' = cc
        /\ held' = hd
        /\ heap' = Recycle(DecHeap(heap, id[1], id[2], r), cc, hd, th)
        /\ ev' = DecEvents(heap, id[1], id[2], r)
                   \o (IF r.isZero THEN <<AssertEv("assert:isZero", id[1], id[2])>>
                       ELSE <<>>)
        /\ ret' = NoRet
        /\ UNCHANGED <<th, cfg>>

\* --------------------------------------------------- RemoveFromCache
\* RemoveFromCache(key) up to line 561: find(writeAccessor, key).
RemoveFromCache(t, k) ==
    /\ MayCall(t)
    /\ Accessible(c, k)
    /\ IF c.m_T1T2map[k] = "none"
       THEN Return(t, Called("RemoveFromCache", "rem", k), c, heap, held,
                   <<>>, 0)
       ELSE Step(t, [c EXCEPT !.accessor[k] = t], heap, held,
                 Called("RemoveFromCache", "remLock", k), <<>>)

\* A removal that keeps the key in the history, as a demotion does.
RemLockLeavingGhost(t) ==
    LET k == th[t].key
        inT1 == ElementOf(c, k).firstList
        q == IF inT1 THEN c.m_T1Queue ELSE c.m_T2Queue
        pos == PosOfKey(q, k)
        element == q[pos]
    IN  /\ th[t].pc = "remLock"
        /\ c.m_mutex = 0
        /\ pos <= Len(q)
        /\ Step(t, [c EXCEPT
                      !.m_mutex = t,
                      !.m_T1Queue = IF inT1 THEN RemoveAt(@, pos) ELSE @,
                      !.m_T2Queue = IF inT1 THEN @ ELSE RemoveAt(@, pos),
                      !.m_numLong = IF ~inT1 \/ element.longBit THEN @ - 1 ELSE @,
                      !.m_numShort = IF inT1 /\ ~element.longBit THEN @ - 1 ELSE @,
                      !.m_B1List = <<Ghost(element)>> \o @,
                      !.m_B1ListSize = @ + 1,
                      !.m_B1B2map = @ \cup {k}],
                heap, held,
                [th[t] EXCEPT !.pc = "remDec", !.element = element], <<>>)

\* Lines 564-605: under m_mutex the element leaves the queue its
\* firstList names.
RemLock(t) ==
    LET k == th[t].key
        inT1 == ElementOf(c, k).firstList
        q == IF inT1 THEN c.m_T1Queue ELSE c.m_T2Queue
        pos == PosOfKey(q, k)
        element == q[pos]
    IN  /\ th[t].pc = "remLock"
        /\ c.m_mutex = 0
        /\ pos <= Len(q)
        /\ Step(t, [c EXCEPT
                      !.m_mutex = t,
                      !.m_T1Queue = IF inT1 THEN RemoveAt(@, pos) ELSE @,
                      !.m_T2Queue = IF inT1 THEN @ ELSE RemoveAt(@, pos),
                      !.m_numLong = IF ~inT1 \/ element.longBit THEN @ - 1 ELSE @,
                      !.m_numShort = IF inT1 /\ ~element.longBit THEN @ - 1 ELSE @],
                heap, held,
                [th[t] EXCEPT !.pc = "remDec", !.element = element], <<>>)

\* Lines 607-611 and the destructors of lock and writeAccessor.  Line 607
\* calls DecUsage(pageKey, page) without the waitForLast argument that the
\* declaration of DecUsage requires: the call is modelled with either
\* value of it.
RemDecWith(t, waitForLast) ==
    LET element == th[t].element
        k == element.pageKey
        r == DecUsage(c.m_usage, k, element.page, waitForLast)
        hp == DecHeap(heap, k, element.page, r)
    IN  /\ th[t].pc = "remDec"
        /\ ~r.blocked
        /\ Return(t, th[t],
                  [c EXCEPT !.m_usage = r.usage,
                               !.m_usedMemory = @ - ValueSize,
                               !.m_T1T2map[k] = "none",
                               !.accessor[k] = 0,
                               !.m_mutex = 0],
                  hp, held,
                  DecEvents(heap, k, element.page, r)
                      \o <<SizeEv(k, element.page, IsLive(hp, k, element.page))>>,
                  0)

RemDec(t) == \E waitForLast \in BOOLEAN : RemDecWith(t, waitForLast)

\* -------------------------------------------------------------- Clear
\* Clear takes neither m_mutex nor an accessor.
Clear(t) ==
    /\ MayCall(t)
    /\ cfg.clears # 0
    /\ Moves(t, c, heap, held,
             [Called("Clear", "clearT1", 0) EXCEPT !.it = 1], <<>>)
    /\ cfg' = [cfg EXCEPT !.clears = IF @ > 0 THEN @ - 1 ELSE @]

MarkDeleted(s, i) == [s EXCEPT ![i].deleted = TRUE]

\* The deleted elements of a queue that is being cleared, which the map
\* goes on pointing to until it is cleared itself.
Dangling(cc, s) ==
    {s[i] : i \in {j \in 1..Len(s) : cc.m_T1T2map[s[j].pageKey] = "elem"}}

\* Lines 254-259: one iteration of the loop over T1 (DecUsage goes round
\* until the row is at most 1, then the element is deleted), or
\* m_T1Queue.clear() at its end.
ClearT1(t) ==
    LET i == th[t].it
        e == c.m_T1Queue[i]
        r == DecUsage(c.m_usage, e.pageKey, e.page, TRUE)
    IN  /\ th[t].pc = "clearT1"
        /\ IF i <= Len(c.m_T1Queue)
           THEN /\ ~r.blocked
                /\ Step(t, [c EXCEPT !.m_usage = r.usage,
                                     !.m_T1Queue = MarkDeleted(@, i)],
                        DecHeap(heap, e.pageKey, e.page, r), held,
                        [th[t] EXCEPT !.it = i + 1],
                        DecEvents(heap, e.pageKey, e.page, r))
           ELSE Step(t, [c EXCEPT !.m_T1Queue = <<>>,
                                  !.deleted = @ \cup Dangling(c, c.m_T1Queue)],
                     heap, held,
                     [th[t] EXCEPT !.pc = "clearT2", !.it = 1], <<>>)

\* A Clear that leaves the index of the history as it was.
ClearedButHistoryIndex(cc) ==
    [cc EXCEPT !.m_T2Queue = <<>>,
               !.m_B1List = <<>>, !.m_B1ListSize = 0,
               !.m_B2List = <<>>, !.m_B2ListSize = 0,
               !.m_p = 0, !.m_q = 0,
               !.m_numShort = 0, !.m_numLong = 0,
               !.m_usedMemory = 0,
               !.m_T1T2map = [k \in DOMAIN @ |-> "none"],
               !.accessor = [k \in DOMAIN @ |-> 0],
               !.deleted = {}]

\* Lines 266-285: what Clear resets after its loops.  m_T1Queue was
\* cleared at line 259, m_usage is not cleared.
Cleared(cc) ==
    [cc EXCEPT !.m_T2Queue = <<>>,
               !.m_B1List = <<>>, !.m_B1ListSize = 0,
               !.m_B2List = <<>>, !.m_B2ListSize = 0,
               !.m_p = 0, !.m_q = 0,
               !.m_numShort = 0, !.m_numLong = 0,
               !.m_usedMemory = 0,
               !.m_T1T2map = [k \in DOMAIN @ |-> "none"],
               !.accessor = [k \in DOMAIN @ |-> 0],
               !.m_B1B2map = {},
               !.deleted = {}]

\* Lines 261-285: one iteration of the loop over T2, or the rest of
\* Clear at its end.
ClearT2(t) ==
    LET i == th[t].it
        e == c.m_T2Queue[i]
        r == DecUsage(c.m_usage, e.pageKey, e.page, TRUE)
    IN  /\ th[t].pc = "clearT2"
        /\ IF i <= Len(c.m_T2Queue)
           THEN /\ ~r.blocked
                /\ Step(t, [c EXCEPT !.m_usage = r.usage,
                                     !.m_T2Queue = MarkDeleted(@, i)],
                        DecHeap(heap, e.pageKey, e.page, r), held,
                        [th[t] EXCEPT !.it = i + 1],
                        DecEvents(heap, e.pageKey, e.page, r))
           ELSE Return(t, th[t], Cleared(c), heap, held, <<>>, 0)

\* ------------------------------------------------- one client thread
\* The steps of InternalInsert after the insert into the map.
Insertion(t) ==
    \/ Lock(t)
    \/ SweepT2(t)
    \/ SweepT1(t)
    \/ Demote(t)
    \/ DemoteFind(t)
    \/ DemoteDec(t)
    \/ Install(t)

\* A single thread calls the operations one after the other and drops the
\* handle a call returned before it makes the next call.
Init ==
    \E n \in 1..MaxElements : InitWith(n, 0, Env)

Next ==
    \/ \E k \in Keys : FindOrCreate(1, k)
    \/ \E k \in Keys : IsInCache(1, k)
    \/ \E k \in Keys : InsertIntoCache(1, k)
    \/ \E k \in Keys : RemoveFromCache(1, k)
    \/ Clear(1)
    \/ \E id \in Ptrs : Drop(1, id)
    \/ Ins(1)
    \/ Insertion(1)
    \/ RemLock(1)
    \/ RemDec(1)
    \/ ClearT1(1)
    \/ ClearT2(1)

Spec == Init /\ [][Next]_vars

\* The events of a kind in a log, and those about one value.
Events(log, type) == {i \in 1..Len(log) : log[i].type = type}

EventsOf(log, type, id) ==
    {i \in Events(log, type) : <<log[i].key, log[i].page>> = id}

Asserts(log) ==
    {i \in 1..Len(log) :
        log[i].type \in {"assert:row", "assert:check", "assert:isZero"}}

\* C4: a FindOrCreate of the sequential client calls CacheAcquireValue
\* not at all when the key was resident and exactly once when it was not,
\* and returns in both cases a non-empty handle on the page of the element
\* the map then holds for the key.
MissAccounting ==
    ret.op = "FindOrCreate" =>
        /\ Cardinality(Events(ret.log, "acquire"))
              = (IF ret.resident THEN 0 ELSE 1)
        /\ ret.handle # 0
        /\ held[1][<<ret.key, ret.handle>>] = 1
        /\ c.m_T1T2map[ret.key] = "elem"
        /\ HasKey(Resident(c), ret.key)
        /\ ElementOf(c, ret.key).page = ret.handle

\* A miss on a full cache has returned, after one acquire and a demotion.
MissOnFullCache ==
    /\ ret.op = "FindOrCreate"
    /\ ~ret.resident
    /\ ret.full
    /\ Cardinality(Events(ret.log, "acquire")) = 1
    /\ Cardinality(Events(ret.log, "release")) = 1

\* C5: with maxNumElements = N > 0 and maxUsedMemory = 0, and every handle
\* dropped before the next call, T1 and T2 together hold at most N elements
\* whenever no call is running.
CountBound ==
    th[1].pc = "idle" =>
        /\ c.m_maxNumElements > 0 /\ c.m_maxUsedMemory = 0
        /\ Len(c.m_T1Queue) + Len(c.m_T2Queue) <= c.m_maxNumElements

\* An insertion found the cache full and has returned with T1 and T2
\* holding exactly maxNumElements elements, some of them in T2.
FullAfterInsertion ==
    /\ ret.op \in {"FindOrCreate", "InsertIntoCache"}
    /\ ret.full
    /\ c.m_T2Queue # <<>>
    /\ Len(c.m_T1Queue) + Len(c.m_T2Queue) = c.m_maxNumElements

\* C10: when Clear returns, T1, T2, B1, B2 and both maps are empty, p, q,
\* nS, nL and usedMemory are 0, every page that was resident when Clear was
\* called has been released exactly once and has no usage row, nothing
\* else was released, and no key is resident (a FindOrCreate of any key
\* then acquires, by C4).
ClearPostcondition ==
    ret.op = "Clear" =>
        /\ c.m_T1Queue = <<>> /\ c.m_T2Queue = <<>>
        /\ c.m_B1List = <<>> /\ c.m_B2List = <<>>
        /\ c.m_B1ListSize = 0 /\ c.m_B2ListSize = 0
        /\ c.m_B1B2map = {}
        /\ \A k \in Keys : c.m_T1T2map[k] = "none"
        /\ c.m_p = 0 /\ c.m_q = 0
        /\ c.m_numShort = 0 /\ c.m_numLong = 0 /\ c.m_usedMemory = 0
        /\ \A id \in ret.pages :
              /\ Cardinality(EventsOf(ret.log, "release", id)) = 1
              /\ c.m_usage[id] = 0
        /\ Cardinality(Events(ret.log, "release")) = Cardinality(ret.pages)
        /\ \A i \in Events(ret.log, "release") : ret.log[i].live
        /\ Asserts(ret.log) = {}

\* Clear has returned after it found two pages resident.
ClearedTwoPages ==
    /\ ret.op = "Clear"
    /\ Cardinality(ret.pages) = 2
    /\ Cardinality(Events(ret.log, "release")) = 2

\* ------------------------------------- one client thread that keeps pins
\* A single thread calls the operations one after the other and may keep
\* handles across its calls.
InitPin == InitWith(1, 0, [Env EXCEPT !.hold = TRUE])

NextPin ==
    \/ \E k \in Keys : FindOrCreate(1, k)
    \/ \E k \in Keys : IsInCache(1, k)
    \/ \E id \in Ptrs : Drop(1, id)
    \/ Ins(1)
    \/ Insertion(1)

SpecPin == InitPin /\ [][NextPin]_vars

\* The same client, which also removes keys.
NextPinRemove ==
    \/ \E k \in Keys : FindOrCreate(1, k)
    \/ \E k \in Keys : RemoveFromCache(1, k)
    \/ \E id \in Ptrs : Drop(1, id)
    \/ Ins(1)
    \/ Insertion(1)
    \/ RemLock(1)
    \/ RemDec(1)

SpecPinRemove == InitPin /\ [][NextPinRemove]_vars

\* ------------------------------------------ a loader that may fail
\* The sequential client with a loader whose CacheAcquireValue may return
\* nullptr; every call records the cache it found.
InitFail ==
    \E n \in 1..MaxElements : InitWith(n, 0, [Env EXCEPT !.fail = TRUE, !.snap = TRUE])

NextFail ==
    \/ \E k \in Keys : FindOrCreate(1, k)
    \/ \E id \in Ptrs : Drop(1, id)
    \/ Ins(1)
    \/ Insertion(1)

SpecFail == InitFail /\ [][NextFail]_vars

\* C6: a FindOrCreate of a key that was not resident, whose acquire
\* returned nullptr, returns with the cache as the call found it (T1, T2,
\* B1, B2, both maps, p, q, nS, nL, usedMemory and the usage rows), the
\* key not resident, so that the next FindOrCreate of it acquires again.
LoaderFailureLeavesCacheUnchanged ==
    (/\ ret.op = "FindOrCreate"
     /\ ~ret.resident
     /\ Events(ret.log, "acquire") # {}
     /\ ret.handle = 0) =>
        /\ c = ret.before
        /\ c.m_T1T2map[ret.key] = "none"
        /\ ~HasKey(Resident(c), ret.key)

\* --------------------- a client that pins for a while, then only misses
\* The client stops keeping handles: from here on it drops the handle of
\* a call before it makes the next one.
StopHolding ==
    /\ cfg.hold
    /\ th[1].pc = "idle"
    /\ cfg' = [cfg EXCEPT !.hold = FALSE]
    /\ ev' = <<>>
    /\ ret' = NoRet
    /\ UNCHANGED <<c, heap, held, th>>

\* FindOrCreate of a key that is not in the map.
Miss(t, k) == c.m_T1T2map[k] = "none" /\ FindOrCreate(t, k)

\* While it keeps handles the client looks up any key; afterwards it only
\* looks up keys that are not resident, again and again.
NextDrain ==
    \/ \E k \in Keys : cfg.hold /\ FindOrCreate(1, k)
    \/ \E k \in Keys : ~cfg.hold /\ Miss(1, k)
    \/ \E id \in Ptrs : Drop(1, id)
    \/ Ins(1)
    \/ Insertion(1)
    \/ StopHolding

SpecDrain == InitPin /\ [][NextDrain]_vars /\ WF_vars(NextDrain)

\* C9: once the client has dropped all handles and only inserts keys that
\* are not resident, dropping each handle right after the call, a cache
\* that holds more than maxNumElements elements eventually holds at most
\* maxNumElements when a call has returned.
OverflowIsTransient ==
    (/\ ~cfg.hold
     /\ th[1].pc = "idle"
     /\ HeldCount(1) = 0
     /\ Len(Resident(c)) > c.m_maxNumElements)
        ~> (th[1].pc = "idle" /\ Len(Resident(c)) <= c.m_maxNumElements)

\* The elements of T1 and T2 that some handle pins (usage above 1).
Pinned(cc, e) == GetUsage(cc.m_usage, e.pageKey, e.page) > 1

AllPinned(cc) == \A i \in 1..Len(Resident(cc)) : Pinned(cc, Resident(cc)[i])

\* C7: when the victim search of an insertion into a full cache finds no
\* element to demote, every element of T1 and T2 is pinned (its usage is
\* above 1); an insertion into a full cache that finds an element without
\* a handle demotes one.
NoVictimOnlyIfAllPinned ==
    (/\ th[1].pc = "demote"
     /\ DemoteT1(c) = Len(c.m_T1Queue) + 1
     /\ DemoteT2(c) = Len(c.m_T2Queue) + 1) => AllPinned(c)

\* C8: an insertion that finds the cache full with every element of T1 and
\* T2 pinned demotes nothing, and returns a non-empty handle after it put
\* the new key at the tail of T1, without a failed assertion: T1 and T2
\* together hold one element more than before.
StepWhenAllPinned ==
    /\ (th[1].pc = "demote" /\ AllPinned(c)) =>
          /\ th'[1].pc = "install"
          /\ c' = c
          /\ ev' = <<>>
    /\ (/\ th[1].pc = "install" /\ th[1].full /\ AllPinned(c)
        /\ Len(Resident(c)) = th[1].maxNumElements) =>
          /\ ret'.thread = 1
          /\ ret'.handle = th[1].value /\ ret'.handle # 0
          /\ held'[1][<<th[1].key, th[1].value>>] = held[1][<<th[1].key, th[1].value>>] + 1
          /\ c'.m_T2Queue = c.m_T2Queue
          /\ Len(c'.m_T1Queue) = Len(c.m_T1Queue) + 1
          /\ SubSeq(c'.m_T1Queue, 1, Len(c.m_T1Queue)) = c.m_T1Queue
          /\ c'.m_T1Queue[Len(c'.m_T1Queue)].pageKey = th[1].key
          /\ c'.m_T1Queue[Len(c'.m_T1Queue)].page = th[1].value
          /\ c'.m_T1T2map[th[1].key] = "elem"
          /\ Asserts(ret'.log) = {}
          /\ Events(ret'.log, "release") = {}

SoftCap == [][StepWhenAllPinned]_vars

\* An insertion that found the cache full has returned with one element
\* more than it found and nothing released.
GrewWhenAllPinned ==
    /\ ret.op = "FindOrCreate"
    /\ ret.full
    /\ ~ret.resident
    /\ ret.handle # 0
    /\ Len(Resident(c)) = ret.maxNumElements + 1
    /\ AllPinned(c)
\* ------------------------------------------- threads that look keys up
\* NumThreads threads call FindOrCreate, each dropping the handle of a
\* call before its next call.
InitLookups == InitWith(1, 0, Env)

NextLookups ==
    \E t \in Threads :
        \/ \E k \in Keys : FindOrCreate(t, k)
        \/ \E id \in Ptrs : Drop(t, id)
        \/ Ins(t)
        \/ Insertion(t)

SpecLookups == InitLookups /\ [][NextLookups]_vars

\* Thread t has inserted key k into the map and not yet into T1.
Inserting(t, k) ==
    /\ th[t].key = k
    /\ th[t].pc \in {"lock", "sweepT2", "sweepT1", "demote", "demoteFind",
                     "demoteDec", "install"}

\* The elements of key k: in T1 and T2, and taken out as a victim.
Entries(cc, k) == {i \in 1..Len(Resident(cc)) : Resident(cc)[i].pageKey = k}

Victims(k) == {t \in Threads : th[t].element.pageKey = k}

\* C3: however the FindOrCreate calls of the threads interleave, a key in
\* the map has exactly one element or exactly one thread inserting it,
\* which is the only thread that acquired a value for it, and acquired it
\* once; every handle a thread holds on the key, and every handle a
\* FindOrCreate returns, is a non-empty handle on the page of that element.
MissDeduplication ==
    /\ \A k \in Keys :
          LET inserting == {t \in Threads : Inserting(t, k)}
              n == Cardinality(inserting) + Cardinality(Entries(c, k))
                     + Cardinality(Victims(k))
          IN  /\ n <= 1
              /\ (c.m_T1T2map[k] # "none") <=> (n = 1)
              /\ \A t \in inserting :
                    /\ Cardinality(Events(th[t].log, "acquire")) = 1
                    /\ th[t].value # 0
              /\ \A t \in Threads, v \in 1..MaxValsPerKey :
                    held[t][<<k, v>>] > 0 =>
                        /\ c.m_T1T2map[k] = "elem"
                        /\ ElementOf(c, k).page = v
    /\ \A t \in Threads :
          Events(th[t].log, "acquire") # {} => Inserting(t, th[t].key)
    /\ ret.op = "FindOrCreate" =>
          /\ ret.handle # 0
          /\ ElementOf(c, ret.key).page = ret.handle
          /\ Cardinality(Events(ret.log, "acquire")) <= 1

\* A thread that did not find the key in the map has returned without an
\* acquire, with a handle on the page another thread acquired meanwhile
\* and holds a handle on.
SharedMiss ==
    /\ ret.op = "FindOrCreate"
    /\ ~ret.resident
    /\ Events(ret.log, "acquire") = {}
    /\ \E t \in Threads \ {ret.thread} :
          held[t][<<ret.key, ret.handle>>] > 0
\* ------------------------------------ Clear while another thread looks up
\* The step thread t takes next reads a CLOCKElement that Clear has
\* deleted: through the map, in T1 or T2, or as the victim it has taken.
ReadsDeleted(t) ==
    LET stale(k) == /\ c.m_T1T2map[k] = "elem"
                    /\ Accessible(c, k)
                    /\ ElementOf(c, k).deleted
    IN  \/ MayCall(t) /\ \E k \in Keys : stale(k)
        \/ th[t].pc = "ins" /\ stale(th[t].key)
        \/ /\ th[t].pc \in {"sweepT2", "sweepT1", "demote"}
           /\ \E i \in 1..Len(Resident(c)) : Resident(c)[i].deleted
        \/ /\ th[t].pc \in {"demoteFind", "demoteDec"}
           /\ th[t].element.deleted

\* Reading deleted memory is undefined: the read returns what the element
\* held when it was deleted (the steps above), or the process ends here.
Fault(t) ==
    /\ ReadsDeleted(t)
    /\ th' = [u \in Threads |-> [th[u] EXCEPT !.pc = "fault"]]
    /\ ev' = <<>>
    /\ ret' = NoRet
    /\ UNCHANGED <<c, heap, held, cfg>>

\* Thread 1 calls Clear, MaxClears times, while thread 2 looks up all keys
\* but one and may keep a handle across its calls.  Elements that Clear
\* misses stay in T1 and T2 for good: thread 2 stops its calls once they
\* hold more than MaxQueued elements.
InitRace ==
    InitWith(1, 0, [Env EXCEPT !.hold = TRUE, !.clears = MaxClears])

NextRace ==
    \/ Clear(1)
    \/ ClearT1(1)
    \/ ClearT2(1)
    \/ \E k \in Keys \ {NumKeys} :
          Len(Resident(c)) <= MaxQueued /\ FindOrCreate(2, k)
    \/ \E id \in Ptrs : Drop(2, id)
    \/ Ins(2)
    \/ Insertion(2)
    \/ Fault(2)

SpecRace == InitRace /\ [][NextRace]_vars

\* The release events of the last step.
Released == {i \in 1..Len(ev) : ev[i].type = "release"}

\* C1: no step passes to CacheReleaseValue a value that a thread holds a
\* handle on, and the value of every handle a thread holds is alive (it
\* has not been released), whether or not its key is still resident.
PinSafety ==
    /\ \A i \in Released : \A t \in Threads :
          ev[i].page # 0 => held[t][<<ev[i].key, ev[i].page>>] = 0
    /\ \A t \in Threads, id \in Ptrs : held[t][id] > 0 => heap[id] = "live"

\* A value that is alive and that the cache or a handle still answers
\* for: the page of an element of T1 or T2 or of a victim, the value of an
\* insertion in progress, or the value of a handle.
Owned(id) ==
    \/ id \in Pages(c)
    \/ \E t \in Threads :
          \/ held[t][id] > 0
          \/ th[t].pc # "idle" /\ <<th[t].key, th[t].value>> = id
          \/ <<th[t].element.pageKey, th[t].element.page>> = id

\* C2: CacheReleaseValue is never called on a value that was released
\* before, nor on the value a caller of InsertIntoCache still owns, and
\* every value that is alive is resident, pinned by a handle or in the
\* hands of a running call: a value that is none of these has been
\* released.
ReleaseOnce ==
    /\ \A i \in Released : ev[i].live
    /\ \A i \in Released : \A t \in Threads :
          ~(/\ th[t].pc = "ins"
            /\ th[t].value # 0
            /\ <<th[t].key, th[t].value>> = <<ev[i].key, ev[i].page>>)
    /\ \A id \in Ptrs : heap[id] = "live" => Owned(id)

\* ------------------------------------ Clear while handles are outstanding
\* Thread 2 fills the cache and keeps handles; thread 1 calls Clear while
\* thread 2 is between two calls, and until Clear has returned thread 2
\* only drops handles.  Every call records the cache it found.
InitClearDrain ==
    InitWith(MaxElements, 0, [Env EXCEPT !.hold = TRUE, !.snap = TRUE])

NextClearDrain ==
    \/ th[2].pc = "idle" /\ Clear(1)
    \/ ClearT1(1)
    \/ ClearT2(1)
    \/ \E k \in Keys : th[1].pc = "idle" /\ FindOrCreate(2, k)
    \/ \E id \in Ptrs : Drop(2, id)
    \/ Ins(2)
    \/ Insertion(2)

\* The scheduler runs the thread that is in Clear: the loop of DecUsage
\* yields and goes round again.
SpecClearDrain ==
    InitClearDrain /\ [][NextClearDrain]_vars
        /\ WF_vars(ClearT1(1) \/ ClearT2(1))

\* The pages Clear found resident that a handle pinned when it was called.
PinnedAtCall(r) == {id \in r.pages : r.before.m_usage[id] > 1}

\* While Clear runs it releases no value that a handle still pins; when it
\* returns no handle is left on a page it found resident, and each of
\* these pages was released exactly once, alive.
ClearHoldsBack ==
    /\ (th[1].op = "Clear" \/ ret.op = "Clear") =>
          \A i \in Released : \A t \in Threads :
              held[t][<<ev[i].key, ev[i].page>>] = 0
    /\ ret.op = "Clear" =>
          /\ \A id \in ret.pages :
                /\ \A t \in Threads : held[t][id] = 0
                /\ Cardinality(EventsOf(ret.log, "release", id)) = 1
                /\ heap[id] # "live"
          /\ \A i \in Events(ret.log, "release") : ret.log[i].live
          /\ Asserts(ret.log) = {}

\* C11: a Clear called while another thread holds handles on resident
\* values releases none of these values and does not return before their
\* handles are dropped; once all handles are dropped Clear returns, and by
\* then each of the values was released exactly once.
ClearDrains ==
    /\ []ClearHoldsBack
    /\ (th[1].op = "Clear" /\ HeldCount(2) = 0) ~> (ret.op = "Clear")

\* Clear has returned after it found two pages resident, both pinned by
\* handles when it was called.
ClearWaitedForTwoHandles ==
    /\ ret.op = "Clear"
    /\ Cardinality(PinnedAtCall(ret)) = 2
    /\ Cardinality(Events(ret.log, "release")) = 2

\* --------------------------------- threads that call all the operations
\* Thread 1 calls FindOrCreate, IsInCache and InsertIntoCache and thread 2
\* calls RemoveFromCache, on any key; thread 1 drops the handle of a call
\* before its next call.
InitCalls == InitWith(1, 0, Env)

NextCalls ==
    \/ \E k \in Keys : FindOrCreate(1, k)
    \/ \E k \in Keys : IsInCache(1, k)
    \/ \E k \in Keys : InsertIntoCache(1, k)
    \/ \E id \in Ptrs : Drop(1, id)
    \/ Ins(1)
    \/ Insertion(1)
    \/ \E k \in Keys : RemoveFromCache(2, k)
    \/ RemLock(2)
    \/ RemDec(2)

SpecCalls == InitCalls /\ [][NextCalls]_vars

\* The thread that holds what thread t waits for, 0 when t does not wait
\* for a thread: the accessor of a key in insert() and find(), m_mutex in
\* the constructor of scoped_lock.
WaitsFor(t) ==
    IF th[t].pc = "ins" THEN c.accessor[th[t].key]
    ELSE IF th[t].pc \in {"lock", "remLock"} THEN c.m_mutex
    ELSE IF th[t].pc = "demoteFind" THEN c.accessor[th[t].element.pageKey]
    ELSE 0

\* C12: no state is reachable in which the threads of a set each wait for
\* an accessor of m_T1T2map or for m_mutex that another thread of the set
\* holds.
DeadlockFreedom ==
    ~\E S \in SUBSET Threads :
        /\ S # {}
        /\ \A t \in S : WaitsFor(t) \in S

\* ------------------------------------------------ the effect of a call
\* The cache but for its usage rows.
Policy(cc) == [cc EXCEPT !.m_usage = [id \in DOMAIN @ |-> 0]]

\* The step is the whole call op(k) of thread 1.
CallOf(op) == ret'.thread = 1 /\ ret'.op = op /\ th[1].pc = "idle"

\* The step returns a handle on page v of key k to thread 1: the usage row
\* and the handles of the thread go up by one, and no others.
Pins(k, v) ==
    /\ ret'.handle = v
    /\ c'.m_usage = [c.m_usage EXCEPT ![<<k, v>>] = @ + 1]
    /\ held' = [held EXCEPT ![1][<<k, v>>] = @ + 1]

StepIsInCache ==
    CallOf("IsInCache") =>
        LET k == ret'.key
        IN  /\ Policy(c') = Policy(c)
            /\ ev' = <<>> /\ ret'.log = <<>>
            /\ HasKey(Resident(c), k) =>
                  /\ ElementOf(c, k).page # 0
                  /\ Pins(k, ElementOf(c, k).page)
            /\ ~HasKey(Resident(c), k) =>
                  /\ ret'.handle = 0
                  /\ c' = c
                  /\ held' = held
            /\ (ret.op = "IsInCache" /\ ret.key = k) => ret'.handle = ret.handle

\* C13: IsInCache(k) returns a non-empty handle on the page of the element
\* of k when k is in T1 or T2 and an empty handle when it is not, calls
\* neither CacheAcquireValue nor any other callback, and changes nothing
\* of the cache but the usage row of the page it pins: no reference bit, no
\* filter bit, no queue, list or map, none of p, q, nS, nL, usedMemory; a
\* probe right after a probe of the same key returns the same page.
IsInCacheIsAProbe == [][StepIsInCache]_vars

\* A probe of a resident key has returned while an earlier handle on its
\* page was alive; both handles are alive and the reference bit of the
\* element is not set.
ProbedWhilePinned ==
    /\ ret.op = "IsInCache"
    /\ ret.handle # 0
    /\ held[1][<<ret.key, ret.handle>>] = 2
    /\ c.m_usage[<<ret.key, ret.handle>>] = 3
    /\ ~ElementOf(c, ret.key).referenceBit

\* Queue s2 is queue s1 with the reference bit of the element of key k set
\* and nothing else changed or moved.
SameButBit(s1, s2, k) ==
    /\ Len(s2) = Len(s1)
    /\ \A i \in 1..Len(s1) :
          IF s1[i].pageKey = k
          THEN /\ s2[i].referenceBit
               /\ [s2[i] EXCEPT !.referenceBit = s1[i].referenceBit] = s1[i]
          ELSE s2[i] = s1[i]

StepHit ==
    (CallOf("FindOrCreate") /\ HasKey(Resident(c), ret'.key)) =>
        LET k == ret'.key
        IN  /\ SameButBit(c.m_T1Queue, c'.m_T1Queue, k)
            /\ SameButBit(c.m_T2Queue, c'.m_T2Queue, k)
            /\ Policy([c' EXCEPT !.m_T1Queue = c.m_T1Queue,
                                 !.m_T2Queue = c.m_T2Queue]) = Policy(c)
            /\ ElementOf(c', k).referenceBit
            /\ ElementOf(c, k).page # 0
            /\ Pins(k, ElementOf(c, k).page)
            /\ ev' = <<>> /\ ret'.log = <<>>

\* C14: a FindOrCreate of a key in T1 or T2 sets the reference bit of its
\* element, returns a handle on its page (the usage row goes up by one)
\* and changes nothing else: the element keeps its position in its queue
\* and its filter bit, and T1, T2, B1, B2, both maps, p, q, nS, nL and
\* usedMemory are as before.
HitEffect == [][StepHit]_vars

\* A hit on the key at the head of a queue of two elements has returned:
\* the element is still at the head, with its reference bit set.
HitAtHead ==
    /\ ret.op = "FindOrCreate"
    /\ ret.resident
    /\ Len(c.m_T1Queue) = 2
    /\ c.m_T1Queue[1].pageKey = ret.key
    /\ c.m_T1Queue[1].referenceBit
    /\ c.m_T1Queue[1].longBit
    /\ ~c.m_T1Queue[2].referenceBit

\* ------------------------- one client thread whose calls record the cache
\* The sequential client; every call records the cache it found.
InitSnap ==
    \E n \in 1..MaxElements : InitWith(n, 0, [Env EXCEPT !.snap = TRUE])

SpecSnap == InitSnap /\ [][Next]_vars

\* Queue s without its element of key k.
Without(s, k) == IF HasKey(s, k) THEN RemoveAt(s, PosOfKey(s, k)) ELSE s

\* C15: when RemoveFromCache(k) returns and k was in T1 or T2, the element
\* of k has left its queue and the map, nS (element Short) or nL (element
\* Long) is one less, usedMemory is less by the size of the value, the
\* usage row of the value has lost the count of the cache and the value was
\* released, once and alive, and B1, B2, the history map, p and q are as
\* the call found them; when k was in neither queue (in the history or
\* not) the cache is as the call found it and no callback was called.
RemoveEffect ==
    ret.op = "RemoveFromCache" =>
        LET b == ret.before
            k == ret.key
            e == ElementOf(b, k)
        IN  IF HasKey(Resident(b), k)
            THEN /\ c.m_T1Queue = Without(b.m_T1Queue, k)
                 /\ c.m_T2Queue = Without(b.m_T2Queue, k)
                 /\ c.m_T1T2map = [b.m_T1T2map EXCEPT ![k] = "none"]
                 /\ c.m_numShort = b.m_numShort - (IF e.longBit THEN 0 ELSE 1)
                 /\ c.m_numLong = b.m_numLong - (IF e.longBit THEN 1 ELSE 0)
                 /\ c.m_usedMemory = b.m_usedMemory - ValueSize
                 /\ c.m_usage = [b.m_usage EXCEPT ![<<k, e.page>>] = @ - 1]
                 /\ c.m_usage[<<k, e.page>>] = 0
                 /\ Cardinality(Events(ret.log, "release")) = 1
                 /\ Cardinality(EventsOf(ret.log, "release", <<k, e.page>>)) = 1
                 /\ \A i \in Events(ret.log, "release") : ret.log[i].live
                 /\ Events(ret.log, "acquire") = {}
                 /\ Asserts(ret.log) = {}
                 /\ c.m_B1List = b.m_B1List /\ c.m_B2List = b.m_B2List
                 /\ c.m_B1ListSize = b.m_B1ListSize
                 /\ c.m_B2ListSize = b.m_B2ListSize
                 /\ c.m_B1B2map = b.m_B1B2map
                 /\ c.m_p = b.m_p /\ c.m_q = b.m_q
                 /\ c.m_mutex = 0 /\ c.accessor = b.accessor
            ELSE /\ c = b
                 /\ ret.log = <<>>

\* RemoveFromCache of a Long key of T2 has returned, with another key in
\* the history.
RemovedFromT2 ==
    /\ ret.op = "RemoveFromCache"
    /\ HasKey(ret.before.m_T2Queue, ret.key)
    /\ ret.before.m_B1B2map # {}
    /\ ~HasKey(Resident(c), ret.key)
    /\ c.m_numLong = ret.before.m_numLong - 1

\* C16: when InsertIntoCache(k, v) returns and k was in T1 or T2, the
\* handle is a non-empty handle on the page the element of k had and has
\* (not on v), no callback was called (v was not sized or released, nothing
\* was acquired), the usage row of that page is one higher and no other row
\* changed (none was made for v), and T1, T2 with all bits, B1, B2, both
\* maps, p, q, nS, nL and usedMemory are as the call found them.
InsertOfResidentKey ==
    (ret.op = "InsertIntoCache" /\ HasKey(Resident(ret.before), ret.key)) =>
        LET b == ret.before
            k == ret.key
            page == ElementOf(b, k).page
        IN  /\ ret.handle = page
            /\ page # 0
            /\ heap[<<k, page>>] = "live"
            /\ held[1][<<k, page>>] = 1
            /\ ElementOf(c, k).page = page
            /\ Policy(c) = Policy(b)
            /\ c.m_usage = [b.m_usage EXCEPT ![<<k, page>>] = @ + 1]
            /\ ret.log = <<>>

\* InsertIntoCache of a key of T1 or T2 has returned a handle on the page
\* the key had, and the reference bit of its element is not set.
InsertedResidentKey ==
    /\ ret.op = "InsertIntoCache"
    /\ HasKey(Resident(ret.before), ret.key)
    /\ ret.handle # 0
    /\ ~ElementOf(c, ret.key).referenceBit
    /\ c.m_B1B2map # {}

\* ----------------------------------------------- the indexes of the cache
\* Thread t is inside Clear.
Clearing(t) == th[t].op = "Clear"

\* C17: whenever no thread holds m_mutex and no thread is inside Clear,
\* the keys of m_T1T2map, but for those a thread is inserting, are the keys
\* of the elements of T1 and T2, every key has at most one element in T1
\* and T2 together, and the element the map holds for a key is the one in
\* the queue, which has not been deleted.
ResidentIndexConsistency ==
    (c.m_mutex = 0 /\ \A t \in Threads : ~Clearing(t)) =>
        /\ \A k \in Keys :
              /\ Cardinality(Entries(c, k)) <= 1
              /\ (\A t \in Threads : ~Inserting(t, k)) =>
                    /\ c.m_T1T2map[k] \in {"none", "elem"}
                    /\ c.m_T1T2map[k] = "elem" <=> HasKey(Resident(c), k)
        /\ \A i \in 1..Len(Resident(c)) : ~Resident(c)[i].deleted
        /\ c.deleted = {}

\* The keys of the elements of a list.
KeysOf(s) == {s[i].pageKey : i \in 1..Len(s)}

\* C18: whenever no call is running, the keys of m_B1B2map are the keys of
\* the elements of B1 and B2, every such key has one element in B1 and B2
\* together, m_B1ListSize and m_B2ListSize are the lengths of the lists,
\* the elements of B1 have firstList set and those of B2 have it clear,
\* and no key of T1 or T2 is in the history.
GhostIndexConsistency ==
    (\A t \in Threads : th[t].pc = "idle") =>
        /\ c.m_B1B2map = KeysOf(c.m_B1List) \cup KeysOf(c.m_B2List)
        /\ Cardinality(c.m_B1B2map) = Len(c.m_B1List) + Len(c.m_B2List)
        /\ c.m_B1ListSize = Len(c.m_B1List)
        /\ c.m_B2ListSize = Len(c.m_B2List)
        /\ \A i \in 1..Len(c.m_B1List) : c.m_B1List[i].firstList
        /\ \A i \in 1..Len(c.m_B2List) : ~c.m_B2List[i].firstList
        /\ KeysOf(Resident(c)) \cap c.m_B1B2map = {}

\* An insertion of a key of the history has returned, its element Long at
\* the tail of T1, with a ghost left in B2.
HistoryHitWithGhostLeft ==
    /\ ret.op = "FindOrCreate"
    /\ ~ret.resident
    /\ c.m_T1Queue # <<>>
    /\ c.m_T1Queue[Len(c.m_T1Queue)].pageKey = ret.key
    /\ c.m_T1Queue[Len(c.m_T1Queue)].longBit
    /\ c.m_B2List # <<>>

\* The elements of T1 and T2 whose filter is Long (long = TRUE) or Short.
Filtered(cc, long) ==
    {i \in 1..Len(Resident(cc)) : Resident(cc)[i].longBit = long}

\* C19: whenever no call is running, m_numShort is the number of elements
\* of T1 and T2 that are Short and m_numLong the number that are Long, so
\* that their sum is the number of elements, and every element of T2 is
\* Long.
FilterCountersExact ==
    (\A t \in Threads : th[t].pc = "idle") =>
        /\ c.m_numShort = Cardinality(Filtered(c, FALSE))
        /\ c.m_numLong = Cardinality(Filtered(c, TRUE))
        /\ c.m_numShort + c.m_numLong = Len(c.m_T1Queue) + Len(c.m_T2Queue)
        /\ \A i \in 1..Len(c.m_T2Queue) : c.m_T2Queue[i].longBit

\* An insertion into a full cache has returned with a Long element in T2
\* and the new element, Short, in T1.
ShortAndLongResident ==
    /\ ret.op = "FindOrCreate"
    /\ ret.full
    /\ c.m_T2Queue # <<>>
    /\ c.m_numLong = 1
    /\ c.m_numShort = 1
    /\ ~ElementOf(c, ret.key).longBit

\* C20: in a cache with maxNumElements = N > 0, whenever no call is
\* running, 0 <= p <= N, also after handles kept across insertions have let
\* T1 and T2 grow beyond N elements.
BoundOnP ==
    (\A t \in Threads : th[t].pc = "idle") =>
        /\ c.m_maxNumElements > 0
        /\ 0 <= c.m_p
        /\ c.m_p <= c.m_maxNumElements

\* ------------------------------------------- a cache with a byte limit
\* MaxBytes values fit the limit on the used memory; no limit on the number
\* of elements.  The sequential client looks keys up and removes them.
InitBytes ==
    \E n \in 1..MaxBytes : InitWith(0, n * ValueSize, Env)

NextBytes ==
    \/ \E k \in Keys : FindOrCreate(1, k)
    \/ \E k \in Keys : RemoveFromCache(1, k)
    \/ \E id \in Ptrs : Drop(1, id)
    \/ Ins(1)
    \/ Insertion(1)
    \/ RemLock(1)
    \/ RemDec(1)

SpecBytes == InitBytes /\ [][NextBytes]_vars

\* c = max(maxNumElements, |T1| + |T2|).
EffectiveCapacity(cc) ==
    MaxS(cc.m_maxNumElements, Len(cc.m_T1Queue) + Len(cc.m_T2Queue))

\* C21: with a limit on the elements or only on the memory, whenever no
\* call is running q is not negative and not above 2c, c the larger of
\* maxNumElements and |T1| + |T2|.
BoundOnQ ==
    (\A t \in Threads : th[t].pc = "idle") =>
        /\ c.m_maxNumElements # 0 \/ c.m_maxUsedMemory # 0
        /\ 0 <= c.m_q
        /\ c.m_q <= 2 * EffectiveCapacity(c)

\* C22: whenever no call is running, m_usedMemory is the sum of the sizes
\* of the pages of the elements of T1 and T2 (every page has the size
\* ValueSize), and is never negative.
UsedMemoryAccounting ==
    (\A t \in Threads : th[t].pc = "idle") =>
        /\ c.m_usedMemory = ValueSize * Len(Resident(c))
        /\ c.m_usedMemory >= 0

\* An insertion into a full cache of two elements has returned after it
\* demoted an element and released its page.
DemotedFromTwo ==
    /\ ret.op = "FindOrCreate"
    /\ ret.full
    /\ Events(ret.log, "release") # {}
    /\ Len(Resident(c)) = 2
    /\ c.m_usedMemory = 2 * ValueSize

\* ------------------------------------------ a client that scans keys
\* A sequential client that owns up to two handles at a call: thread 1
\* calls the operations one after the other and may keep a handle across
\* its calls; thread 2 holds the second handle: it looks the next key up
\* between two calls of thread 1, while thread 1 owns a handle.  The
\* client asks for the next key of the scan, or, while it owns no handle,
\* for a resident key, and it removes the last key it scanned while it owns
\* no handle.  No two calls run at the same time.
MaxKey(cc) ==
    LET used == KeysOf(Resident(cc)) \cup cc.m_B1B2map \cup {0}
    IN  CHOOSE k \in used : \A j \in used : j <= k

InTurn(t) == \A u \in Threads \ {t} : th[u].pc = "idle"

Asks(k) ==
    \/ k = MaxKey(c) + 1
    \/ c.m_T1T2map[k] = "elem" /\ \A t \in Threads : HeldCount(t) = 0

InitScan ==
    /\ c = [NewCache(1, 0) EXCEPT
               !.m_T1T2map = [k \in ScanKeys |-> "none"],
               !.accessor = [k \in ScanKeys |-> 0],
               !.m_usage = [id \in ScanIds |-> 0]]
    /\ heap = [id \in ScanPtrs |-> "free"]
    /\ held = [t \in Threads |-> [id \in ScanPtrs |-> 0]]
    /\ th = [t \in Threads |-> IdleThread]
    /\ ev = <<>>
    /\ ret = NoRet
    /\ cfg = [Env EXCEPT !.hold = TRUE]

NextScan ==
    \/ \E k \in ScanKeys : InTurn(1) /\ Asks(k) /\ FindOrCreate(1, k)
    \/ \E k \in ScanKeys :
          /\ InTurn(1) /\ c.m_T1T2map[k] = "elem" /\ k = MaxKey(c)
          /\ \A t \in Threads : HeldCount(t) = 0
          /\ RemoveFromCache(1, k)
    \/ \E k \in ScanKeys :
          /\ InTurn(2) /\ HeldCount(1) > 0 /\ HeldCount(2) = 0
          /\ k = MaxKey(c) + 1 /\ FindOrCreate(2, k)
    \/ \E t \in Threads : \E id \in ScanPtrs : InTurn(t) /\ Drop(t, id)
    \/ \E t \in Threads : Ins(t) \/ Insertion(t)
    \/ RemLock(1)
    \/ RemDec(1)

SpecScan == InitScan /\ [][NextScan]_vars

\* C23: in a cache with maxNumElements = N > 0, whenever no call is
\* running, |B1| + |B2| <= c + 1 with c the larger of N and |T1| + |T2|,
\* whatever insertions, hits, removals and handle drops came before.
GhostBound ==
    (\A t \in Threads : th[t].pc = "idle") =>
        /\ c.m_maxNumElements > 0
        /\ Len(c.m_B1List) + Len(c.m_B2List) <= EffectiveCapacity(c) + 1

\* ------------------------------------------------------ the policy lock
\* What m_mutex is there to protect: the order of the keys in T1, T2, B1
\* and B2, the keys of the history map, p, q, nS and nL.
Structure(cc) ==
    [T1 |-> [i \in 1..Len(cc.m_T1Queue) |-> cc.m_T1Queue[i].pageKey],
     T2 |-> [i \in 1..Len(cc.m_T2Queue) |-> cc.m_T2Queue[i].pageKey],
     B1 |-> [i \in 1..Len(cc.m_B1List) |-> cc.m_B1List[i].pageKey],
     B2 |-> [i \in 1..Len(cc.m_B2List) |-> cc.m_B2List[i].pageKey],
     G |-> cc.m_B1B2map,
     p |-> cc.m_p, q |-> cc.m_q,
     nS |-> cc.m_numShort, nL |-> cc.m_numLong]

\* A step that changes the structure is the step of a thread that holds
\* m_mutex before it or after it: no other thread has moved.
MutatesUnderLock ==
    Structure(c') # Structure(c) =>
        \E t \in Threads :
            /\ c.m_mutex = t \/ c'.m_mutex = t
            /\ \A u \in Threads \ {t} : th'[u] = th[u]

\* C24: every step of FindOrCreate, InsertIntoCache, RemoveFromCache and
\* Clear that changes T1, T2, B1, B2, the history map, p, q, nS or nL is
\* the step of a thread that holds m_mutex.
PolicyLockSerialization == [][MutatesUnderLock]_vars
\* ----------------------------- threads that keep handles across calls
\* Thread 1 looks keys up and drops the handle of a call before its next
\* call; thread 2 looks keys up and may keep a handle while it makes its
\* next call.
InitHold == InitWith(1, 0, [Env EXCEPT !.hold = TRUE])

NextHold ==
    \/ \E k \in Keys : HeldCount(1) = 0 /\ FindOrCreate(1, k)
    \/ \E k \in Keys : FindOrCreate(2, k)
    \/ \E t \in Threads : \E id \in Ptrs : Drop(t, id)
    \/ \E t \in Threads : Ins(t) \/ Insertion(t)

SpecHold == InitHold /\ [][NextHold]_vars

\* Thread t is in DecUsage(pageKey, page, true) at line 417 or 439 and the
\* row of the victim is above 1.
WaitsForLast(t) ==
    /\ th[t].pc = "demoteDec"
    /\ DecUsage(c.m_usage, th[t].element.pageKey, th[t].element.page,
                TRUE).blocked

\* The threads whose step thread t waits for: the owner of the accessor or
\* of m_mutex it asks for; in DecUsage(.., true), the threads that own a
\* handle on the victim.  A handle is dropped by a thread between its calls.
Blockers(t) ==
    IF WaitsForLast(t)
    THEN {u \in Threads :
            held[u][<<th[t].element.pageKey, th[t].element.page>>] > 0}
    ELSE IF WaitsFor(t) # 0 THEN {WaitsFor(t)}
    ELSE {}

\* C25: where a thread may keep a handle while it calls FindOrCreate, no
\* state is reachable in which an insertion waits in DecUsage(.., true),
\* with m_mutex held, for handles whose owners all wait in turn for m_mutex
\* or for each other: there every call of the set waits forever.
NoWaitForeverOnHandles ==
    ~\E S \in SUBSET Threads :
        /\ \E t \in S : WaitsForLast(t) /\ c.m_mutex = t
        /\ \A t \in S : Blockers(t) # {} /\ Blockers(t) \subseteq S

\* C26: where RemoveFromCache is never called while a handle on its key is
\* alive (here: never called), no Handle::Release is the last owner of its
\* row: DecUsage does not return true to it and its assertion holds.
HandleDropIsNeverLast ==
    \A i \in 1..Len(ev) : ev[i].type # "assert:isZero"

\* The live non-empty handles on <<key, value>>.
Handles(id) ==
    LET RECURSIVE Sum(_)
        Sum(S) == IF S = {} THEN 0
                  ELSE LET t == CHOOSE u \in S : TRUE
                       IN  held[t][id] + Sum(S \ {t})
    IN  IF id[2] = 0 THEN 0 ELSE Sum(Threads)

\* C27: whenever no call is running, the usage row of every <<key, value>>
\* holds 1 if the value is the page of a resident element of the key, plus
\* the number of live non-empty handles on it, and there is no row where
\* that sum is 0: every handle a call returned has added 1 and every handle
\* dropped has taken 1 off.
UsageCountExact ==
    (\A t \in Threads : th[t].pc = "idle") =>
        \A id \in DOMAIN c.m_usage :
            c.m_usage[id] = (IF id \in Pages(c) THEN 1 ELSE 0) + Handles(id)

\* C28: CacheGetValueSize is never given a value that CacheReleaseValue
\* has been called for: in a demotion and in RemoveFromCache the size is
\* taken while the value is still alive.
SizeBeforeRelease ==
    \A i \in 1..Len(ev) : ev[i].type = "size" => ev[i].live

\* The positions of the elements of queue s that no handle is out on.
Free(s) ==
    {i \in 1..Len(s) : c.m_usage[<<s[i].pageKey, s[i].page>>] <= 1}

Least(S) == CHOOSE i \in S : \A j \in S : i <= j

\* The step in which thread 1 looks for a victim, after the sweeps: when
\* T1 holds max(1, p) elements or more and one of them is free, the first
\* free one of T1 leaves T1; if not, the first free one of T2 leaves T2; the
\* victim has no handle out.
StepSearch ==
    LET first == Len(c.m_T1Queue) >= (IF c.m_p > 1 THEN c.m_p ELSE 1)
                    /\ Free(c.m_T1Queue) # {}
        e == th'[1].element
    IN  (th[1].pc = "demote" /\ th'[1].pc # "demote") =>
            IF first
            THEN /\ th'[1].pc = "demoteFind" /\ th'[1].it = 1
                 /\ e = c.m_T1Queue[Least(Free(c.m_T1Queue))]
                 /\ c'.m_T1Queue = RemoveAt(c.m_T1Queue, Least(Free(c.m_T1Queue)))
                 /\ c'.m_T2Queue = c.m_T2Queue
                 /\ Handles(<<e.pageKey, e.page>>) = 0
            ELSE IF Free(c.m_T2Queue) # {}
            THEN /\ th'[1].pc = "demoteFind" /\ th'[1].it = 2
                 /\ e = c.m_T2Queue[Least(Free(c.m_T2Queue))]
                 /\ c'.m_T2Queue = RemoveAt(c.m_T2Queue, Least(Free(c.m_T2Queue)))
                 /\ c'.m_T1Queue = c.m_T1Queue
                 /\ Handles(<<e.pageKey, e.page>>) = 0
            ELSE /\ th'[1].pc = "install"
                 /\ c' = c

\* The steps that finish the demotion: the victim is the front of B1 if it
\* left T1 and of B2 if it left T2 and its key is in G; then its key leaves
\* R.
StepDemoted ==
    LET e == th[1].element
        k == e.pageKey
    IN  /\ (th[1].pc = "demoteFind" /\ th'[1].pc = "demoteDec") =>
              /\ k \in c'.m_B1B2map
              /\ IF th[1].it = 1
                 THEN /\ c'.m_B1List = <<Ghost(e)>> \o c.m_B1List
                      /\ c'.m_B2List = c.m_B2List
                 ELSE /\ c'.m_B2List = <<Ghost(e)>> \o c.m_B2List
                      /\ c'.m_B1List = c.m_B1List
        /\ (th[1].pc = "demoteDec" /\ th'[1].pc = "install") =>
              /\ c'.m_T1T2map[k] = "none"
              /\ ~HasKey(Resident(c'), k)
              /\ k \in c'.m_B1B2map

\* C29: an insertion into a full cache demotes the first element of T1, head
\* to tail, with a usage of at most 1, provided T1 holds max(1, p) elements
\* or more after the sweeps and has such an element, and the first such
\* element of T2 otherwise; the victim becomes the front of B1 (from T1) or
\* of B2 (from T2), its key leaves R and enters G, and no handle is out on
\* it.
VictimSelection == [][StepSearch /\ StepDemoted]_vars

\* The victim came from T2 while a handle was out on an element of T1.
VictimFromT2PastPinned ==
    /\ th[1].pc = "demoteFind"
    /\ th[1].it = 2
    /\ \E i \in 1..Len(c.m_T1Queue) :
          Handles(<<c.m_T1Queue[i].pageKey, c.m_T1Queue[i].page>>) > 0

\* The insertion of thread 1 that takes m_mutex in this step uses its
\* capacity: the cache is full (sweeps, ghost trim) or the key is in the
\* history (adaptation of p and q).
UsesCapacity ==
    /\ th[1].pc = "lock"
    /\ th'[1].pc # "lock"
    /\ IsFull(c) \/ th[1].key \in c.m_B1B2map

\* C30: the capacity an insertion works with is the larger of
\* maxNumElements and |T1| + |T2| as they are when the insertion starts,
\* with a limit on the count, on the bytes or on both, full or not.
CapacityOfInsertion ==
    [][UsesCapacity => th'[1].maxNumElements = EffectiveCapacity(c)]_vars

\* The step is the install step of an insertion of thread 1 whose key is a
\* ghost of B1.
InstallsFromB1 ==
    /\ th[1].pc = "install"
    /\ th'[1].pc = "idle"
    /\ th[1].key \in c.m_B1B2map
    /\ HasKey(c.m_B1List, th[1].key)

\* What the claim gives for the step: p, the ghost, the new element at the
\* tail of T1, the filter counts.
StepB1Hit ==
    LET k == th[1].key
        cap == th[1].maxNumElements
        share == c.m_numShort \div Len(c.m_B1List)
        target == c.m_p + (IF share > 1 THEN share ELSE 1)
        last == c'.m_T1Queue[Len(c'.m_T1Queue)]
    IN  /\ c'.m_p = (IF target < cap THEN target ELSE cap)
        /\ c'.m_p > c.m_p \/ c.m_p = cap
        /\ ~HasKey(c'.m_B1List, k)
        /\ Len(c'.m_B1List) = Len(c.m_B1List) - 1
        /\ c'.m_B2List = c.m_B2List
        /\ k \notin c'.m_B1B2map
        /\ Len(c'.m_T1Queue) = Len(c.m_T1Queue) + 1
        /\ last.pageKey = k /\ last.page = th[1].value
        /\ last.longBit /\ ~last.referenceBit /\ last.firstList
        /\ c'.m_T2Queue = c.m_T2Queue
        /\ c'.m_numLong = c.m_numLong + 1
        /\ c'.m_numShort = c.m_numShort

\* C31: the insertion of a key that is a ghost in B1 sets p to
\* min(p + max(1, nS / |B1|), c), so that p grows unless it was c already,
\* takes the key out of B1 and G and puts it at the tail of T1 as a Long
\* element with its reference bit clear; nL grows by one and nS stays.
GhostHitInB1 == [][InstallsFromB1 => StepB1Hit]_vars


\* ------------------------------------------- hits while a sweep runs
\* Thread 1 inserts and looks up; thread 2 only looks up keys that are
\* resident, which sets their reference bit without m_mutex, also while
\* thread 1 is in the sweeps of an insertion.  Each thread drops the handle
\* of a call before its next call.
InitSweep ==
    \E n \in 1..MaxElements : InitWith(n, 0, Env)

NextSweep ==
    \/ \E k \in Keys : FindOrCreate(1, k)
    \/ \E k \in Keys : c.m_T1T2map[k] = "elem" /\ FindOrCreate(2, k)
    \/ \E t \in Threads : \E id \in Ptrs : Drop(t, id)
    \/ Ins(1)
    \/ Insertion(1)

\* The scheduler runs the thread that owns m_mutex: a step of its insertion
\* that can be taken is taken.
SpecSweep == InitSweep /\ [][NextSweep]_vars /\ WF_vars(Insertion(1))

\* C32: the sweep of T2 and the sweep of T1 of an insertion come to an end,
\* also when another thread sets reference bits on the hit path meanwhile:
\* an insertion that is in one of its sweeps reaches the demotion step.
SweepsFinish ==
    th[1].pc \in {"sweepT2", "sweepT1"} ~> th[1].pc = "demote"


\* ------------------------------------------------- history replacement
\* The step is the install step of an insertion of thread t.
Installs(t) == th[t].pc = "install" /\ th'[t].pc = "idle"

\* The insertion of thread t is one into a full cache, its key is not in
\* the history and the history holds one ghost more than the capacity of
\* the insertion, or more.
TrimDue(t) ==
    /\ th[t].full
    /\ th[t].key \notin c.m_B1B2map
    /\ Len(c.m_B1List) + Len(c.m_B2List) >= th[t].maxNumElements + 1

\* The step is one of Clear called by thread t.
InClear(t) == th[t].op = "Clear" /\ th'[t] # th[t]

\* The ghosts that the step takes out of B1 and B2, the one of the key
\* that thread t inserts aside.
Trimmed(t) == (KeysOf(History(c)) \ KeysOf(History(c'))) \ {th[t].key}

\* What the claim gives for a trim: the tail of B1 or the tail of B2 goes,
\* with its key in the history map, and the list it leaves was not empty.
StepTrim ==
    LET fromB1 == Len(c.m_B1List) > MaxS(0, c.m_q) \/ Len(c.m_B2List) = 0
        list == IF fromB1 THEN c.m_B1List ELSE c.m_B2List
    IN  /\ list # <<>>
        /\ c'.m_B1List = (IF fromB1 THEN PopBack(c.m_B1List) ELSE c.m_B1List)
        /\ c'.m_B2List = (IF fromB1 THEN c.m_B2List ELSE PopBack(c.m_B2List))
        /\ c'.m_B1ListSize = Len(c'.m_B1List)
        /\ c'.m_B2ListSize = Len(c'.m_B2List)
        /\ c'.m_B1B2map = c.m_B1B2map \ {list[Len(list)].pageKey}
        /\ Cardinality(c'.m_B1B2map) = Cardinality(c.m_B1B2map) - 1

\* C33: a ghost is trimmed only in the insertion into a full cache of a key
\* that is not in G, with |B1| + |B2| >= c + 1; the trim takes one ghost,
\* the tail of B1 if |B1| > max(0, q) or |B2| = 0 and the tail of B2
\* otherwise, takes its key out of G and never pops an empty list.  Clear,
\* which empties the history, is not a trim.
GhostTrim ==
    [][/\ \A t \in Threads :
             /\ (Installs(t) /\ TrimDue(t)) => StepTrim
             /\ (Installs(t) /\ ~TrimDue(t)) => Trimmed(t) = {}
       /\ (\A t \in Threads : ~Installs(t) /\ ~InClear(t))
             => KeysOf(History(c)) \subseteq KeysOf(History(c'))]_vars

\* An insertion into a full cache of a key that was not in G has returned
\* and a ghost that it found is no longer one, nor resident.
GhostTrimmed ==
    /\ ret.op = "FindOrCreate"
    /\ ret.full
    /\ ret.key \notin ret.before.m_B1B2map
    /\ \E g \in ret.before.m_B1B2map :
          /\ ~HasKey(History(c), g)
          /\ ~HasKey(Resident(c), g)
          /\ g \notin c.m_B1B2map

====
